---- MODULE Spec2Model ----
(***************************************************************************)
(* ResumeSense resume analysis engine: the ATS compliance score, the JD     *)
(* matcher, the power-verb statistics, the feature extractor and the       *)
(* quality scorer with its trained-model / rule-based fallback.            *)
(*                                                                         *)
(* Texts are TLA+ strings handled character by character.  Python floats   *)
(* are modelled by exact rationals <<numerator, denominator>>; round(x, 2) *)
(* is round-half-even on the exact value.                                  *)
(***************************************************************************)
EXTENDS Integers, Sequences, FiniteSets, TLC

VARIABLES
    pc,             \* position of the call in progress ("ready", "done", ..)
    args,           \* the arguments of the call in progress
    ret,            \* the value the last call returned (None before)
    artifact,       \* what lies at Config.ML_MODEL_PATH
    model,          \* ResumeScorer.model
    feature_names,  \* ResumeScorer.feature_names
    feature_array,  \* the feature vector built for the predictor
    hash_seed       \* the interpreter's str hash seed (PYTHONHASHSEED)

vars == <<pc, args, ret, artifact, model, feature_names, feature_array, hash_seed>>

None == "None"

-----------------------------------------------------------------------------
(* Exact arithmetic standing for Python's float arithmetic.                *)

Max(a, b) == IF a >= b THEN a ELSE b

Min(a, b) == IF a <= b THEN a ELSE b

\* The rational n/d in lowest terms, d > 0.
Rat(n, d) ==
    LET Abs(a) == IF a < 0 THEN -a ELSE a
        \* The greatest common divisor of the naturals a and b.
        GCD(a, b) ==
            IF a = 0 THEN b
            ELSE IF b = 0 THEN a
            ELSE LET divisors == {g \in 1..Min(a, b) : a % g = 0 /\ b % g = 0}
                 IN  CHOOSE g \in divisors : \A h \in divisors : h <= g
    IN  IF n = 0 THEN <<0, 1>>
        ELSE IF d < 0
        THEN <<(-n) \div GCD(Abs(n), -d), (-d) \div GCD(Abs(n), -d)>>
        ELSE <<n \div GCD(Abs(n), d), d \div GCD(Abs(n), d)>>

RInt(k) == <<k, 1>>

RAdd(p, q) == Rat(p[1] * q[2] + q[1] * p[2], p[2] * q[2])

\* p * k for an integer k
RScale(p, k) == Rat(p[1] * k, p[2])

\* p / k for an integer k > 0
RDivInt(p, k) == Rat(p[1], p[2] * k)

RLeq(p, q) == p[1] * q[2] <= q[1] * p[2]

RLt(p, q) == ~RLeq(q, p)

RMin(p, q) == IF RLeq(p, q) THEN p ELSE q

RMax(p, q) == IF RLeq(p, q) THEN q ELSE p

\* round(p, 2): the nearest multiple of 1/100, ties to the even hundredth.
Round2(p) ==
    LET x  == RScale(p, 100)
        fl == x[1] \div x[2]
        r2 == 2 * (x[1] - fl * x[2])
        h  == IF r2 < x[2] THEN fl
              ELSE IF r2 > x[2] THEN fl + 1
              ELSE IF fl % 2 = 0 THEN fl ELSE fl + 1
    IN  Rat(h, 100)

-----------------------------------------------------------------------------
(* Python str and re operations, character by character.                   *)

UpperChars ==
    {"A", "B", "C", "D", "E", "F", "G", "H", "I", "J", "K", "L", "M",
     "N", "O", "P", "Q", "R", "S", "T", "U", "V", "W", "X", "Y", "Z"}

LowerChars ==
    {"a", "b", "c", "d", "e", "f", "g", "h", "i", "j", "k", "l", "m",
     "n", "o", "p", "q", "r", "s", "t", "u", "v", "w", "x", "y", "z"}

DigitChars == {"0", "1", "2", "3", "4", "5", "6", "7", "8", "9"}

\* \w of re on str
WordChars == UpperChars \cup LowerChars \cup DigitChars \cup {"_"}

\* \s of re on str, and the separators of str.split()
SpaceChars == {" ", "\t", "\n", "\r", "\f"}

LowerOf ==
    "A" :> "a" @@ "B" :> "b" @@ "C" :> "c" @@ "D" :> "d" @@ "E" :> "e" @@
    "F" :> "f" @@ "G" :> "g" @@ "H" :> "h" @@ "I" :> "i" @@ "J" :> "j" @@
    "K" :> "k" @@ "L" :> "l" @@ "M" :> "m" @@ "N" :> "n" @@ "O" :> "o" @@
    "P" :> "p" @@ "Q" :> "q" @@ "R" :> "r" @@ "S" :> "s" @@ "T" :> "t" @@
    "U" :> "u" @@ "V" :> "v" @@ "W" :> "w" @@ "X" :> "x" @@ "Y" :> "y" @@
    "Z" :> "z"

\* The function f with every value computed once, when it is built.
Tabulated(f) == f @@ << >>

\* s[i], 1-based
CharAt(s, i) == SubSeq(s, i, i)

\* str.lower()
RECURSIVE Lower(_)
Lower(s) ==
    IF Len(s) = 0 THEN ""
    ELSE IF Len(s) = 1 THEN (IF s \in UpperChars THEN LowerOf[s] ELSE s)
    ELSE LET h == Len(s) \div 2
         IN  Lower(SubSeq(s, 1, h)) \o Lower(SubSeq(s, h + 1, Len(s)))

\* d in t, for strings
Contains(t, d) ==
    \E i \in 1..(Len(t) - Len(d) + 1) : SubSeq(t, i, i + Len(d) - 1) = d

IsWordAt(s, i) == i >= 1 /\ i <= Len(s) /\ CharAt(s, i) \in WordChars

\* \b between s[i-1] and s[i] (i = 1: the start, i = Len(s)+1: the end)
BoundaryAt(s, i) == IsWordAt(s, i - 1) # IsWordAt(s, i)

\* The end of the run of characters of class cls that starts at s[i]
\* (i - 1 when s[i] is not of the class).
RunEnd(s, i, cls) ==
    IF i > Len(s) THEN i - 1
    ELSE (CHOOSE j \in i..(Len(s) + 1) :
              /\ j = Len(s) + 1 \/ CharAt(s, j) \notin cls
              /\ \A k \in i..(j - 1) : CharAt(s, k) \in cls) - 1

\* The starts of the maximal runs of characters of class cls in s.
RunStarts(s, cls) ==
    {i \in 1..Len(s) :
        /\ CharAt(s, i) \in cls
        /\ (i = 1 \/ CharAt(s, i - 1) \notin cls)}

\* The maximal runs of characters of class cls in s, in order.
Runs(s, cls) ==
    LET from(starts) ==
            Tabulated([k \in 1..Len(starts) |->
                          SubSeq(s, starts[k], RunEnd(s, starts[k], cls))])
        among(starts) ==
            from(SelectSeq(Tabulated([i \in 1..Len(s) |-> i]),
                           LAMBDA i : i \in starts))
    IN  among(RunStarts(s, cls))

\* re.findall(r'\b\w+\b', s): the maximal runs of word characters, in order.
WordRuns(s) == Runs(s, WordChars)

\* str.split(): the maximal runs of non-whitespace characters, in order.
Split(s) == Runs(s, {CharAt(s, i) : i \in 1..Len(s)} \ SpaceChars)

Range(q) == {q[i] : i \in 1..Len(q)}

\* " ".join(words)
RECURSIVE Join(_)
Join(words) ==
    IF Len(words) = 0 THEN ""
    ELSE IF Len(words) = 1 THEN words[1]
    ELSE LET h == Len(words) \div 2
         IN  Join(SubSeq(words, 1, h)) \o " "
                 \o Join(SubSeq(words, h + 1, Len(words)))

\* The texts of at most n words of vocab, single-spaced.
TextsOver(vocab, n) ==
    UNION {{Join(w) : w \in [1..k -> vocab]} : k \in 0..n}

UpperOf == [c \in LowerChars |-> CHOOSE u \in UpperChars : LowerOf[u] = c]

\* str.title() on s[lo..hi]: a letter after a non-letter is upper-cased,
\* a letter after a letter is lower-cased.
RECURSIVE TitleRange(_, _, _)
TitleRange(s, lo, hi) ==
    IF lo > hi THEN ""
    ELSE IF lo = hi
    THEN LET c == CharAt(s, lo)
             after_letter ==
                 lo > 1 /\ CharAt(s, lo - 1) \in UpperChars \cup LowerChars
         IN  IF after_letter
             THEN (IF c \in UpperChars THEN LowerOf[c] ELSE c)
             ELSE (IF c \in LowerChars THEN UpperOf[c] ELSE c)
    ELSE LET h == (lo + hi) \div 2
         IN  TitleRange(s, lo, h) \o TitleRange(s, h + 1, hi)

\* str.title()
Title(s) == TitleRange(s, 1, Len(s))

\* s.replace('_', ' ')
RECURSIVE Spaced(_)
Spaced(s) ==
    IF Len(s) = 0 THEN ""
    ELSE IF Len(s) = 1 THEN (IF s = "_" THEN " " ELSE s)
    ELSE LET h == Len(s) \div 2
         IN  Spaced(SubSeq(s, 1, h)) \o Spaced(SubSeq(s, h + 1, Len(s)))

\* The elements of q at the indices in keep, in order.
AtIndices(q, keep) ==
    LET index(k) == CHOOSE i \in keep : Cardinality({j \in keep : j < i}) = k - 1
    IN  Tabulated([k \in 1..Cardinality(keep) |-> q[index(k)]])

\* q[:n] cut one entry late
Take_OneMore(q, n) == SubSeq(q, 1, Min(Len(q), n + 1))

\* q[:n]
Take(q, n) == SubSeq(q, 1, Min(Len(q), n))

\* The order of characters by code point, for the characters keywords hold.
CodeOf ==
    LET CodeOrder == " #+-./0123456789_abcdefghijklmnopqrstuvwxyz"
    IN  [c \in {CharAt(CodeOrder, i) : i \in 1..Len(CodeOrder)} |->
            CHOOSE i \in 1..Len(CodeOrder) : CharAt(CodeOrder, i) = c]

\* a < b for strings
StrLess(a, b) ==
    \E k \in 1..(Min(Len(a), Len(b)) + 1) :
        /\ SubSeq(a, 1, k - 1) = SubSeq(b, 1, k - 1)
        /\ IF k > Len(a) THEN k <= Len(b)
           ELSE k <= Len(b) /\ CodeOf[CharAt(a, k)] < CodeOf[CharAt(b, k)]

\* sorted(S)
Sorted(S) ==
    LET ranked(rank) ==
            Tabulated([k \in 1..Cardinality(S) |-> CHOOSE x \in S : rank[x] = k - 1])
    IN  ranked(Tabulated([x \in S |-> Cardinality({y \in S : StrLess(y, x)})]))

-----------------------------------------------------------------------------
(* Regular expressions: a pattern is a sequence of items, each a word      *)
(* boundary or a character class repeated lo to hi times (hi = -1: any     *)
(* number of times).                                                       *)

WordBoundary == [boundary |-> TRUE, cls |-> {}, lo |-> 0, hi |-> 0]

Repeat(cls, lo, hi) == [boundary |-> FALSE, cls |-> cls, lo |-> lo, hi |-> hi]

Lit(c) == Repeat({c}, 1, 1)

Optional(cls) == Repeat(cls, 0, 1)

OneOrMore(cls) == Repeat(cls, 1, -1)

\* The positions where a match of items k.. of pat that starts at s[i] may
\* end (the position after its last character).
RECURSIVE MatchEnds(_, _, _, _)
MatchEnds(s, i, pat, k) ==
    IF k > Len(pat) THEN {i}
    ELSE IF pat[k].boundary
         THEN IF BoundaryAt(s, i) THEN MatchEnds(s, i, pat, k + 1) ELSE {}
         ELSE LET run == RunEnd(s, i, pat[k].cls) - i + 1
                  most == IF pat[k].hi < 0 THEN run ELSE Min(run, pat[k].hi)
              IN  UNION {MatchEnds(s, i + n, pat, k + 1) : n \in pat[k].lo..most}

\* bool(re.search(pat, s))
Search(s, pat) == \E i \in 1..(Len(s) + 1) : MatchEnds(s, i, pat, 1) # {}

-----------------------------------------------------------------------------
(* ATSChecker._calculate_ats_score over the flag dictionaries.             *)

SectionNames == {"education", "experience", "skills", "contact", "summary"}

SectionChecks == [SectionNames -> BOOLEAN]

\* _check_contact_info builds 'complete' as has_email and has_phone.
ContactChecks ==
    {[has_email |-> e, has_phone |-> p, has_address |-> a, complete |-> e /\ p] :
        e \in BOOLEAN, p \in BOOLEAN, a \in BOOLEAN}

FormattingChecks ==
    [has_tables : BOOLEAN, excessive_formatting : BOOLEAN,
     has_headers_footers : BOOLEAN, has_bullets : BOOLEAN]

\* sum(d.values()) of a dictionary of booleans
SumValues(d) == Cardinality({k \in DOMAIN d : d[k]})

\* ContactScore with the elif testing the email alone.
ContactScore_EmailOnly(contact_check) ==
    IF contact_check.complete THEN 30
    ELSE IF contact_check.has_email THEN 15
    ELSE 0

ContactScore(contact_check) ==
    IF contact_check.complete THEN 30
    ELSE IF contact_check.has_email \/ contact_check.has_phone THEN 15
    ELSE 0

\* FormattingScore with the headers/footers penalty added instead of taken.
FormattingScore_SignSlip(formatting_checks) ==
    LET s0 == 30
        s1 == IF formatting_checks.has_tables THEN s0 - 10 ELSE s0
        s2 == IF formatting_checks.excessive_formatting THEN s1 - 10 ELSE s1
        s3 == IF formatting_checks.has_headers_footers THEN s2 + 5 ELSE s2
        s4 == IF ~formatting_checks.has_bullets THEN s3 - 5 ELSE s3
    IN  Max(0, s4)

FormattingScore(formatting_checks) ==
    LET s0 == 30
        s1 == IF formatting_checks.has_tables THEN s0 - 10 ELSE s0
        s2 == IF formatting_checks.excessive_formatting THEN s1 - 10 ELSE s1
        s3 == IF formatting_checks.has_headers_footers THEN s2 - 5 ELSE s2
        s4 == IF ~formatting_checks.has_bullets THEN s3 - 5 ELSE s3
    IN  Max(0, s4)

_calculate_ats_score(section_checks, contact_check, formatting_checks) ==
    LET section_score ==
            RScale(Rat(SumValues(section_checks),
                       Cardinality(DOMAIN section_checks)), 40)
        score == RAdd(RAdd(section_score, RInt(ContactScore(contact_check))),
                      RInt(FormattingScore(formatting_checks)))
    IN  Round2(RMin(RInt(100), RMax(RInt(0), score)))

\* any(kw in text for kw in keywords)
ContainsAny(text, keywords) == \E kw \in keywords : Contains(text, kw)

\* text: the resume text in lower case
_check_sections(text) ==
    [education |-> ContainsAny(text, {"education", "academic", "degree",
                                      "university", "college", "school"}),
     experience |-> ContainsAny(text, {"experience", "employment",
                                       "work history", "professional", "career"}),
     skills |-> ContainsAny(text, {"skills", "technical skills",
                                   "competencies", "proficiencies"}),
     contact |-> ContainsAny(text, {"email", "phone", "address", "contact"}),
     summary |-> ContainsAny(text, {"summary", "objective", "profile", "about"})]

Letters == UpperChars \cup LowerChars

\* \b[A-Za-z0-9._%+-]+@[A-Za-z0-9.-]+\.[A-Z|a-z]{2,}\b
EmailPattern ==
    <<WordBoundary,
      OneOrMore(Letters \cup DigitChars \cup {".", "_", "%", "+", "-"}),
      Lit("@"),
      OneOrMore(Letters \cup DigitChars \cup {".", "-"}),
      Lit("."),
      Repeat(Letters \cup {"|"}, 2, -1),
      WordBoundary>>

\* \b\d{3}[-.]?\d{3}[-.]?\d{4}\b
UsPhonePattern ==
    <<WordBoundary, Repeat(DigitChars, 3, 3), Optional({"-", "."}),
      Repeat(DigitChars, 3, 3), Optional({"-", "."}),
      Repeat(DigitChars, 4, 4), WordBoundary>>

\* \(\d{3}\)\s?\d{3}[-.]?\d{4}
ParenPhonePattern ==
    <<Lit("("), Repeat(DigitChars, 3, 3), Lit(")"), Optional(SpaceChars),
      Repeat(DigitChars, 3, 3), Optional({"-", "."}), Repeat(DigitChars, 4, 4)>>

\* \+\d{1,3}[-.\s]?\d{1,4}[-.\s]?\d{1,4}[-.\s]?\d{1,9}
IntlPhonePattern ==
    <<Lit("+"), Repeat(DigitChars, 1, 3), Optional({"-", "."} \cup SpaceChars),
      Repeat(DigitChars, 1, 4), Optional({"-", "."} \cup SpaceChars),
      Repeat(DigitChars, 1, 4), Optional({"-", "."} \cup SpaceChars),
      Repeat(DigitChars, 1, 9)>>

_check_contact_info(text) ==
    LET has_email == Search(text, EmailPattern)
        has_phone == \/ Search(text, UsPhonePattern)
                     \/ Search(text, ParenPhonePattern)
                     \/ Search(text, IntlPhonePattern)
        has_address == ContainsAny(Lower(text), {"street", "avenue", "road", "drive",
                                                 "lane", "city", "state", "zip"})
    IN  [has_email |-> has_email, has_phone |-> has_phone,
         has_address |-> has_address, complete |-> has_email /\ has_phone]

\* text.split('\n')
SplitLines(s) ==
    LET breaks == {i \in 1..Len(s) : CharAt(s, i) = "\n"}
        break(k) == IF k = 0 THEN 0
                    ELSE IF k > Cardinality(breaks) THEN Len(s) + 1
                    ELSE CHOOSE i \in breaks : Cardinality({j \in breaks : j < i}) = k - 1
    IN  [k \in 1..(Cardinality(breaks) + 1) |->
            SubSeq(s, break(k - 1) + 1, break(k) - 1)]

\* str.strip()
Strip(s) ==
    IF \A i \in 1..Len(s) : CharAt(s, i) \in SpaceChars THEN ""
    ELSE SubSeq(s,
                CHOOSE i \in 1..Len(s) :
                    /\ CharAt(s, i) \notin SpaceChars
                    /\ \A k \in 1..(i - 1) : CharAt(s, k) \in SpaceChars,
                Len(s) - (CHOOSE t \in 0..(Len(s) - 1) :
                              /\ CharAt(s, Len(s) - t) \notin SpaceChars
                              /\ \A k \in 0..(t - 1) :
                                     CharAt(s, Len(s) - k) \in SpaceChars))

\* The bullet class of the source also lists three non-ASCII characters,
\* which no text of the model holds.
BulletChars == {"-", "*"}

_check_formatting(text) ==
    LET has_tables == Contains(text, "   ") \/ Contains(text, "\t")
        special == Cardinality({i \in 1..Len(text) :
                        CharAt(text, i) \notin WordChars \cup SpaceChars})
        \* special / max(len(text), 1) > 0.3
        excessive_formatting == 10 * special > 3 * Max(Len(text), 1)
        repeated(header_lines, footer_lines) ==
            \E k \in 1..Len(header_lines) :
                \/ Strip(header_lines[k]) \in Range(footer_lines)
                \/ Strip(header_lines[k]) \in Range(header_lines)
        among(lines) ==
            IF Len(lines) > 10
            THEN repeated(SubSeq(lines, 1, Min(3, Len(lines))),
                          SubSeq(lines, Max(1, Len(lines) - 2), Len(lines)))
            ELSE FALSE
        has_headers_footers == among(SplitLines(text))
        has_bullets == Search(text, <<Repeat(BulletChars, 1, 1),
                                      Repeat(SpaceChars, 1, 1)>>)
    IN  [has_tables |-> has_tables,
         excessive_formatting |-> excessive_formatting,
         has_headers_footers |-> has_headers_footers,
         has_bullets |-> has_bullets]

\* The report of check_compliance, less its issue and recommendation lists.
\* The keys of section_checks in the order _check_sections inserts them.
SectionOrder == <<"education", "experience", "skills", "contact", "summary">>

\* [m] if the check failed, [] otherwise
When(failed, m) == IF failed THEN <<m>> ELSE << >>

_get_issues(section_checks, contact_check, formatting_checks) ==
    LET missing(k) ==
            When(~section_checks[SectionOrder[k]],
                 "Missing " \o Title(SectionOrder[k]) \o " section")
    IN  missing(1) \o missing(2) \o missing(3) \o missing(4) \o missing(5)
        \o When(~contact_check.has_email, "Missing email address")
        \o When(~contact_check.has_phone, "Missing phone number")
        \o When(formatting_checks.has_tables,
                "Contains table-like formatting (may not parse well in ATS)")
        \o When(formatting_checks.excessive_formatting,
                "Excessive special characters (may indicate complex formatting)")
        \o When(formatting_checks.has_headers_footers,
                "Contains headers/footers (may confuse ATS parsing)")
        \o When(~formatting_checks.has_bullets,
                "No bullet points found (bullets improve ATS readability)")

\* The style recommendations with the last one left out.
StyleRecommendations_Two ==
    <<"Use standard fonts (Arial, Times New Roman, Calibri)",
      "Save as PDF to preserve formatting">>

StyleRecommendations ==
    <<"Use standard fonts (Arial, Times New Roman, Calibri)",
      "Save as PDF to preserve formatting",
      "Use keywords from the job description naturally throughout your resume">>

_get_recommendations(section_checks, contact_check, formatting_checks) ==
    When(~section_checks.education,
         "Add an Education section with your academic background")
    \o When(~section_checks.experience,
            "Add an Experience section detailing your work history")
    \o When(~section_checks.skills,
            "Add a Skills section listing your technical and soft skills")
    \o When(~contact_check.has_email, "Include a professional email address")
    \o When(~contact_check.has_phone, "Include a phone number")
    \o When(formatting_checks.has_tables,
            "Avoid using tables; use simple text formatting instead")
    \o When(~formatting_checks.has_bullets,
            "Use bullet points to improve readability and ATS parsing")
    \o StyleRecommendations

check_compliance(resume_text) ==
    LET report(section_checks, contact_check, formatting_checks) ==
            [ats_score |-> _calculate_ats_score(section_checks, contact_check,
                                                formatting_checks),
             section_checks |-> section_checks,
             contact_check |-> contact_check,
             formatting_checks |-> formatting_checks,
             issues |-> _get_issues(section_checks, contact_check, formatting_checks),
             recommendations |->
                 _get_recommendations(section_checks, contact_check,
                                      formatting_checks)]
    IN  report(_check_sections(Lower(resume_text)),
               _check_contact_info(resume_text),
               _check_formatting(resume_text))

AtsArgs ==
    [section_checks : SectionChecks, contact_check : ContactChecks,
     formatting_checks : FormattingChecks]

\* args and ret list the calls made so far and what each returned.
AtsInit ==
    /\ pc = "ready"
    /\ args \in {<<a>> : a \in AtsArgs}
    /\ ret = <<>>
    /\ artifact = None
    /\ model = None
    /\ feature_names = <<>>
    /\ feature_array = <<>>
    /\ hash_seed = 0

\* A call of _calculate_ats_score on the flags at hand.
CalculateAtsScore ==
    /\ pc = "ready"
    /\ ret' = <<_calculate_ats_score(args[1].section_checks,
                                     args[1].contact_check,
                                     args[1].formatting_checks)>>
    /\ pc' = "done"
    /\ UNCHANGED <<args, artifact, model, feature_names, feature_array, hash_seed>>

\* A second call, on a resume with the same section and contact flags and
\* other formatting flags.
RecalculateAtsScore ==
    /\ pc = "done"
    /\ \E f \in FormattingChecks \ {args[1].formatting_checks} :
        /\ args' = Append(args, [args[1] EXCEPT !.formatting_checks = f])
        /\ ret' = Append(ret, _calculate_ats_score(args[1].section_checks,
                                                   args[1].contact_check, f))
    /\ pc' = "recalculated"
    /\ UNCHANGED <<artifact, model, feature_names, feature_array, hash_seed>>

SpecAts == AtsInit /\ [][CalculateAtsScore \/ RecalculateAtsScore]_vars

\* The two message lists of check_compliance, from the flags at hand.
ReportIssues ==
    /\ pc = "ready"
    /\ ret' = <<[issues |-> _get_issues(args[1].section_checks,
                                        args[1].contact_check,
                                        args[1].formatting_checks),
                 recommendations |->
                     _get_recommendations(args[1].section_checks,
                                          args[1].contact_check,
                                          args[1].formatting_checks)]>>
    /\ pc' = "reported"
    /\ UNCHANGED <<args, artifact, model, feature_names, feature_array, hash_seed>>

SpecAtsReport == AtsInit /\ [][ReportIssues]_vars

MaxFormatLines == 11

\* A text of 6 to MaxFormatLines lines: three first lines and three last
\* lines, each a name, the name after a space, or a page mark, around
\* numbered lines
FormattingInit ==
    /\ pc = "ready"
    /\ args \in [text :
                    LET RECURSIVE joined(_)
                        joined(q) == IF Len(q) = 0 THEN ""
                                     ELSE IF Len(q) = 1 THEN q[1]
                                     ELSE q[1] \o "\n" \o joined(Tail(q))
                        ends == [1..3 -> {"Jane Roe", " Jane Roe", "Page 1"}]
                        body(n) == [k \in 1..n |->
                                       "Item " \o SubSeq("123456789", k, k)]
                    IN  {joined(first \o body(n - 6) \o last) :
                             first \in ends, last \in ends,
                             n \in 6..MaxFormatLines}]
    /\ ret = None
    /\ artifact = None
    /\ model = None
    /\ feature_names = <<>>
    /\ feature_array = <<>>
    /\ hash_seed = 0

\* ATSChecker._check_formatting(text)
CheckFormatting ==
    /\ pc = "ready"
    /\ ret' = _check_formatting(args.text)
    /\ pc' = "done"
    /\ UNCHANGED <<args, artifact, model, feature_names, feature_array, hash_seed>>

SpecFormatting == FormattingInit /\ [][CheckFormatting]_vars

\* C25: has_headers_footers is true exactly when the text has more than 10
\* lines and one of its first three lines equals one of its last three
\* lines; it is false for a text of more than 10 lines whose first three
\* lines all differ from its last three lines.
C25_Original ==
    pc = "done" =>
        \E lines \in {SplitLines(args.text)} :
        \E header_lines \in {SubSeq(lines, 1, 3)} :
        \E footer_lines \in {SubSeq(lines, Len(lines) - 2, Len(lines))} :
            /\ ret.has_headers_footers
                   <=> /\ Len(lines) > 10
                       /\ Range(header_lines) \cap Range(footer_lines) # {}
            /\ (/\ Len(lines) > 10
                /\ \A h \in Range(header_lines) : \A f \in Range(footer_lines) :
                       Strip(h) # Strip(f))
               => ~ret.has_headers_footers

-----------------------------------------------------------------------------
(* Properties of the ATS score.                                            *)

Flag(b) == IF b THEN 1 ELSE 0

\* The score of the claim, in hundredths: sections (present/5) x 40,
\* contact 30 / 15 / 0, formatting 30 less the penalties, floored at 0.
ClaimedAtsHundredths(a) ==
    LET present == Cardinality({s \in SectionNames : a.section_checks[s]})
        c == a.contact_check
        f == a.formatting_checks
        contact == IF c.has_email /\ c.has_phone THEN 30
                   ELSE IF c.has_email # c.has_phone THEN 15 ELSE 0
        fmt == Max(0, 30 - 10 * Flag(f.has_tables)
                         - 10 * Flag(f.excessive_formatting)
                         - 5 * Flag(f.has_headers_footers)
                         - 5 * Flag(~f.has_bullets))
    IN  (present * 40 * 100) \div 5 + 100 * contact + 100 * fmt

\* C1: for every combination of the section, contact and formatting flags
\* the returned ats_score is (present/5) x 40 + contact points + formatting
\* points, a multiple of 0.01, and lies in [0, 100].
C1_AtsScoreFormula ==
    \A i \in 1..Len(ret) :
        /\ ret[i] = Rat(ClaimedAtsHundredths(args[i]), 100)
        /\ RLeq(RInt(0), ret[i])
        /\ RLeq(ret[i], RInt(100))

\* Three sections, a phone and no email, tables and no bullets: 24 + 15 + 15.
C1_Witness ==
    /\ pc = "done"
    /\ SumValues(args[1].section_checks) = 3
    /\ args[1].contact_check.has_phone /\ ~args[1].contact_check.has_email
    /\ args[1].formatting_checks =
         [has_tables |-> TRUE, excessive_formatting |-> FALSE,
          has_headers_footers |-> FALSE, has_bullets |-> FALSE]
    /\ ret[1] = RInt(54)

TrueFlags(f) == {k \in DOMAIN f : f[k]}

\* The formatting-risk signals of the scoring rule: the absence of bullets
\* is the risk, their presence is not.
RiskSignals(f) ==
    {k \in {"has_tables", "excessive_formatting", "has_headers_footers"} : f[k]}
        \cup (IF f.has_bullets THEN {} ELSE {"no_bullets"})

\* C9 as stated: with sections and contact fixed, a superset of true flags
\* among has_tables, excessive_formatting, has_headers_footers, has_bullets
\* never has a higher score.
C9_Original ==
    pc = "recalculated" =>
        (TrueFlags(args[1].formatting_checks) \subseteq
             TrueFlags(args[2].formatting_checks)
         => RLeq(ret[2], ret[1]))

\* C9 amended: with sections and contact fixed, a superset of risk signals
\* (tables, excessive formatting, headers/footers, absence of bullets) never
\* has a higher score; has_bullets turning true alone raises the score by 5.
C9_RiskMonotone ==
    pc = "recalculated" =>
        /\ (RiskSignals(args[1].formatting_checks) \subseteq
                RiskSignals(args[2].formatting_checks)
            => RLeq(ret[2], ret[1]))
        /\ (/\ ~args[1].formatting_checks.has_bullets
            /\ args[2].formatting_checks =
                 [args[1].formatting_checks EXCEPT !.has_bullets = TRUE]
            => ret[2] = RAdd(ret[1], RInt(5)))

\* From bullets only to tables, excessive formatting and headers/footers
\* with bullets: the formatting points drop from 30 to 5.
C9_Witness ==
    /\ pc = "recalculated"
    /\ RiskSignals(args[1].formatting_checks) = {}
    /\ RiskSignals(args[2].formatting_checks) =
         {"has_tables", "excessive_formatting", "has_headers_footers"}
    /\ ret[2] = RAdd(ret[1], RInt(-25))

\* The failed checks of a resume: each absent section, a missing email, a
\* missing phone, and the four formatting findings.
FailedChecks(a) ==
    {k \in SectionNames : ~a.section_checks[k]}
        \cup (IF a.contact_check.has_email THEN {} ELSE {"has_email"})
        \cup (IF a.contact_check.has_phone THEN {} ELSE {"has_phone"})
        \cup RiskSignals(a.formatting_checks)

\* C17 as stated: one issue and one recommendation for every failed check,
\* none for a passed check, and three style recommendations besides.
C17_Original ==
    pc = "reported" =>
        /\ Len(ret[1].issues) = Cardinality(FailedChecks(args[1]))
        /\ Len(ret[1].recommendations) = Cardinality(FailedChecks(args[1])) + 3

IssueOf ==
    [education |-> "Missing Education section",
     experience |-> "Missing Experience section",
     skills |-> "Missing Skills section",
     contact |-> "Missing Contact section",
     summary |-> "Missing Summary section",
     has_email |-> "Missing email address",
     has_phone |-> "Missing phone number",
     has_tables |-> "Contains table-like formatting (may not parse well in ATS)",
     excessive_formatting |->
         "Excessive special characters (may indicate complex formatting)",
     has_headers_footers |-> "Contains headers/footers (may confuse ATS parsing)",
     no_bullets |-> "No bullet points found (bullets improve ATS readability)"]

RecommendationOf ==
    [education |-> "Add an Education section with your academic background",
     experience |-> "Add an Experience section detailing your work history",
     skills |-> "Add a Skills section listing your technical and soft skills",
     has_email |-> "Include a professional email address",
     has_phone |-> "Include a phone number",
     has_tables |-> "Avoid using tables; use simple text formatting instead",
     no_bullets |-> "Use bullet points to improve readability and ATS parsing"]

\* C17 amended: every failed check has exactly one issue message and a
\* passed check has none; a failed check has exactly one recommendation
\* when it is a missing education, experience or skills section, a missing
\* email or phone, tables or missing bullets, and none when it is a missing
\* contact or summary section, excessive formatting or headers/footers; the
\* recommendations end with the same three style recommendations; both
\* lists are fixed by the flags.
C17_MessagesPerFailedCheck ==
    pc = "reported" =>
        LET failed == FailedChecks(args[1])
            advised == failed \cap DOMAIN RecommendationOf
            issues == ret[1].issues
            recommendations == ret[1].recommendations
            n == Len(recommendations)
        IN  /\ Len(issues) = Cardinality(failed)
            /\ Range(issues) = {IssueOf[c] : c \in failed}
            /\ n = Cardinality(advised) + 3
            /\ Range(SubSeq(recommendations, 1, n - 3))
                   = {RecommendationOf[c] : c \in advised}
            /\ SubSeq(recommendations, n - 2, n)
                   = <<"Use standard fonts (Arial, Times New Roman, Calibri)",
                       "Save as PDF to preserve formatting",
                       "Use keywords from the job description naturally throughout your resume">>

\* Every check failed: 11 issues, 7 recommendations of a check and the 3
\* of style.
C17_Witness ==
    /\ pc = "reported"
    /\ Cardinality(FailedChecks(args[1])) = 11
    /\ Len(ret[1].issues) = 11
    /\ Len(ret[1].recommendations) = 10

\* Every check passed: no issue, the 3 style recommendations.
C17_WitnessClean ==
    /\ pc = "reported"
    /\ FailedChecks(args[1]) = {}
    /\ ret[1].issues = << >>
    /\ Len(ret[1].recommendations) = 3

-----------------------------------------------------------------------------
(* JDMatcher                                                                *)

SCIENTIFIC_DOMAINS ==
    {"python", "java", "javascript", "typescript", "c++", "cpp", "c#", "csharp",
     "go", "golang", "rust", "swift", "kotlin", "scala", "r", "matlab", "perl",
     "ruby", "php", "sql", "html", "css", "xml", "json", "yaml",
     "react", "angular", "vue", "django", "flask", "spring", "express", "node",
     "tensorflow", "pytorch", "keras", "scikit", "pandas", "numpy", "matplotlib",
     "aws", "azure", "gcp", "docker", "kubernetes", "jenkins", "git", "github",
     "gitlab", "ci/cd", "microservices", "api", "rest", "graphql", "mongodb",
     "postgresql", "mysql", "redis", "elasticsearch", "kafka", "rabbitmq",
     "machine learning", "deep learning", "neural network", "nlp",
     "computer vision", "data science", "statistics", "algorithm",
     "optimization", "regression", "classification", "clustering",
     "reinforcement learning", "ai", "artificial intelligence",
     "linux", "unix", "bash", "shell", "agile", "scrum", "devops", "cloud",
     "security", "encryption", "blockchain", "cryptography", "networking",
     "research", "publication", "thesis", "dissertation", "peer review",
     "journal", "conference", "patent", "methodology", "hypothesis",
     "experiment"}

\* re.findall(r'\b\w+\b', text.lower())
_tokenize(text) == WordRuns(Lower(text))

\* re.findall(r'\b[A-Z]{2,5}\b', text): the word runs made of 2 to 5
\* upper-case letters.
Acronyms(text) ==
    {w \in Range(WordRuns(text)) :
        /\ Len(w) >= 2 /\ Len(w) <= 5
        /\ \A i \in 1..Len(w) : CharAt(w, i) \in UpperChars}

TechExtensions ==
    <<"js", "py", "java", "cpp", "html", "css", "sql", "json", "xml", "ts",
      "tsx", "jsx">>

\* The starts of the word runs where r'\b(\w+)\.(js|py|...)\b' matches when
\* s is scanned left to right without overlap: the run is followed by a dot
\* and a word run that is one of the extensions (whatever its case), and the
\* run was not itself consumed as the extension of the match before it.
TechMatchStarts(s) ==
    LET starts == RunStarts(s, WordChars)
        end(i) == RunEnd(s, i, WordChars)
        candidate(i) ==
            /\ end(i) + 2 <= Len(s)
            /\ CharAt(s, end(i) + 1) = "."
            /\ CharAt(s, end(i) + 2) \in WordChars
            /\ Lower(SubSeq(s, end(i) + 2, end(end(i) + 2))) \in Range(TechExtensions)
        chain_before(i) ==
            {p \in starts :
                p < i /\ \A q \in starts : (p <= q /\ q < i) => candidate(q)}
    IN  {i \in starts : candidate(i) /\ Cardinality(chain_before(i)) % 2 = 0}

\* group 1 of the matches of r'\b(\w+)\.(js|py|...)\b' in s
TechNames(s) ==
    {SubSeq(s, i, RunEnd(s, i, WordChars)) : i \in TechMatchStarts(s)}

\* re.findall(r'\b\w+\.(js|py|...)\b', s, re.IGNORECASE): the only group
\* is the extension, so the extensions as written, in order.
TechExtensionsIn(s) ==
    LET ext(i) == SubSeq(s, RunEnd(s, i, WordChars) + 2,
                         RunEnd(s, RunEnd(s, i, WordChars) + 2, WordChars))
        extensions(found) ==
            Tabulated([k \in 1..Cardinality(found) |->
                ext(CHOOSE i \in found : Cardinality({j \in found : j < i}) = k - 1)])
    IN  extensions(TechMatchStarts(s))

CompoundTerms ==
    {"machine learning", "deep learning", "neural network", "natural language",
     "computer vision", "data science", "artificial intelligence",
     "reinforcement learning", "supervised learning", "unsupervised learning",
     "transfer learning", "feature engineering", "ci/cd", "devops",
     "microservices", "rest api", "graphql", "object oriented",
     "functional programming", "test driven", "agile methodology",
     "scrum master"}

\* term.replace(' ', '_')
RECURSIVE Underscored(_)
Underscored(s) ==
    IF Len(s) = 0 THEN ""
    ELSE IF Len(s) = 1 THEN (IF s = " " THEN "_" ELSE s)
    ELSE LET h == Len(s) \div 2
         IN  Underscored(SubSeq(s, 1, h)) \o Underscored(SubSeq(s, h + 1, Len(s)))

_extract_scientific_keywords(text) ==
    LET text_lower == Lower(text)
    IN  {d \in SCIENTIFIC_DOMAINS : Contains(text_lower, d)}
            \cup {Lower(ac) : ac \in Acronyms(text)}
            \cup TechNames(text_lower)
            \cup {Underscored(t) : t \in {c \in CompoundTerms : Contains(text_lower, c)}}

MatcherStopWords ==
    {"the", "a", "an", "and", "or", "but", "in", "on", "at", "to", "for",
     "of", "with", "by", "from", "as", "is", "was", "are", "were", "been",
     "be", "have", "has", "had", "do", "does", "did", "will", "would",
     "should", "could", "may", "might", "must", "can", "this", "that",
     "these", "those", "i", "you", "he", "she", "it", "we", "they",
     "what", "which", "who", "when", "where", "why", "how", "all", "each",
     "every", "both", "few", "more", "most", "other", "some", "such",
     "only", "own", "same", "so", "than", "too", "very", "just", "now",
     "work", "job", "position", "role", "team", "company", "years",
     "experience"}

_extract_keywords(tokens) ==
    {token \in Range(tokens) :
        /\ token \notin MatcherStopWords
        /\ Len(token) > 2
        /\ token \notin SCIENTIFIC_DOMAINS}

\* MatchScore with an empty JD keyword set counted as fully matched.
MatchScore_VacuousFull(common_scientific, total_jd_scientific, common_keywords, total_jd_keywords) ==
    LET scientific_score ==
            IF total_jd_scientific > 0
            THEN RScale(Rat(Cardinality(common_scientific), total_jd_scientific), 100)
            ELSE RInt(100)
        general_score ==
            IF total_jd_keywords > 0
            THEN RScale(Rat(Cardinality(common_keywords), total_jd_keywords), 100)
            ELSE RInt(100)
        match_score ==
            IF total_jd_scientific = 0 /\ total_jd_keywords = 0 THEN RInt(0)
            ELSE RAdd(RDivInt(RScale(scientific_score, 7), 10),
                      RDivInt(RScale(general_score, 3), 10))
    IN  RMin(RInt(100), RMax(RInt(0), match_score))

\* The weighted score of compute_match_score, before rounding.
MatchScore(common_scientific, total_jd_scientific, common_keywords, total_jd_keywords) ==
    LET scientific_score ==
            IF total_jd_scientific > 0
            THEN RScale(Rat(Cardinality(common_scientific), total_jd_scientific), 100)
            ELSE RInt(0)
        general_score ==
            IF total_jd_keywords > 0
            THEN RScale(Rat(Cardinality(common_keywords), total_jd_keywords), 100)
            ELSE RInt(0)
        match_score ==
            IF total_jd_scientific = 0 /\ total_jd_keywords = 0 THEN RInt(0)
            ELSE RAdd(RDivInt(RScale(scientific_score, 7), 10),
                      RDivInt(RScale(general_score, 3), 10))
    IN  RMin(RInt(100), RMax(RInt(0), match_score))

\* The order in which Python iterates a set of str: the order of the hash
\* slots, which the interpreter's hash seed fixes.  The model lets the seed
\* pick the alphabetical order rotated by seed places.
IterationOrder(S, seed) ==
    LET turned(q) == Tabulated([k \in 1..Len(q) |-> q[((k - 1 + seed) % Len(q)) + 1]])
    IN  turned(Sorted(S))

\* re.findall(r'\b[A-Z][a-z]+(?:\s+[A-Z][a-z]+)*\b', s): a unit is an
\* upper-case letter and its run of lower-case letters; a match is a chain
\* of units linked by whitespace that starts and ends at a word boundary.
CapitalizedPhrases(s) ==
    LET \* what may lie between two units of one match: whitespace, and
        \* the units that whitespace precedes
        between(units, end) ==
            {i \in 1..Len(s) :
                \/ CharAt(s, i) \in SpaceChars
                \/ \E u \in units :
                       /\ u <= i /\ i <= end[u]
                       /\ u > 1 /\ CharAt(s, u - 1) \in SpaceChars}
        \* the last position before unit q that cannot lie inside a match
        \* that reaches q (0 when there is none)
        barrier(units, gaps) ==
            Tabulated([q \in units |->
                CHOOSE i \in 0..(q - 1) :
                    /\ i = 0 \/ i \notin gaps
                    /\ \A j \in (i + 1)..(q - 1) : j \in gaps])
        phrases(units, end, barriers) ==
            LET linked(h, q) ==
                    /\ h <= q
                    /\ h = q \/ CharAt(s, q - 1) \in SpaceChars
                    /\ barriers[q] <= end[h]
                last(h) == {q \in units : ~IsWordAt(s, end[q] + 1) /\ linked(h, q)}
                matches(opens) ==
                    {h \in opens :
                        /\ ~\E g \in opens : g < h /\ linked(g, h)
                        /\ last(h) # {}}
                ordered(found) ==
                    Tabulated([k \in 1..Cardinality(found) |->
                        LET h == CHOOSE f \in found :
                                     Cardinality({g \in found : g < f}) = k - 1
                        IN  SubSeq(s, h, end[CHOOSE q \in last(h) :
                                                \A r \in last(h) : r <= q])])
            IN  ordered(matches({h \in units : ~IsWordAt(s, h - 1)}))
        ends(units) == Tabulated([p \in units |-> RunEnd(s, p + 1, LowerChars)])
        from(units, end) == phrases(units, end, barrier(units, between(units, end)))
        over(units) == from(units, ends(units))
    IN  over({p \in 1..(Len(s) - 1) :
                CharAt(s, p) \in UpperChars /\ CharAt(s, p + 1) \in LowerChars})

\* re.findall(r'\b[A-Z]{2,5}\b', s, re.IGNORECASE): the word runs made of
\* 2 to 5 letters of either case, in order.
AcronymsIgnoreCase(s) ==
    LET letters_only(w) ==
            /\ Len(w) >= 2 /\ Len(w) <= 5
            /\ \A i \in 1..Len(w) : CharAt(w, i) \in UpperChars \cup LowerChars
    IN  SelectSeq(WordRuns(s), letters_only)

ImportantExcluded ==
    {"the", "this", "we", "you", "your", "our", "company", "team"}

_extract_important_keywords(jd_text, seed) ==
    LET titled(scientific) ==
            Tabulated([k \in 1..Len(scientific) |-> Title(Spaced(scientific[k]))])
        capitalized == CapitalizedPhrases(jd_text)
        technical_terms == TechExtensionsIn(jd_text) \o AcronymsIgnoreCase(jd_text)
        kept(lowered) ==
            {k \in 1..Len(lowered) :
                /\ lowered[k] \notin ImportantExcluded
                /\ \A j \in 1..(k - 1) : lowered[j] # lowered[k]}
        unique_important(important) ==
            AtIndices(important,
                kept(Tabulated([k \in 1..Len(important) |-> Lower(important[k])])))
    IN  Take(unique_important(
                 titled(IterationOrder(_extract_scientific_keywords(jd_text), seed))
                     \o capitalized \o technical_terms), 30)

\* seed is the hash seed of the interpreter that runs the call.
compute_match_score(resume_text, jd_text, seed) ==
    LET resume_tokens == _tokenize(resume_text)
        jd_tokens == _tokenize(jd_text)
        in_resume(kw) == Contains(Lower(resume_text), Lower(kw))
        result(resume_scientific, jd_scientific, resume_keywords, jd_keywords,
               jd_important, matched_important) ==
            LET common_scientific == resume_scientific \cap jd_scientific
                total_jd_scientific == Cardinality(jd_scientific)
                common_keywords == resume_keywords \cap jd_keywords
                total_jd_keywords == Cardinality(jd_keywords)
                match_score == MatchScore(common_scientific, total_jd_scientific,
                                          common_keywords, total_jd_keywords)
                not_common_scientific(kw) == kw \notin common_scientific
                all_common ==
                    IterationOrder(common_scientific, seed)
                        \o SelectSeq(IterationOrder(common_keywords, seed),
                                     not_common_scientific)
                missing_scientific == jd_scientific \ resume_scientific
                not_missing_scientific(kw) == kw \notin missing_scientific
                all_missing ==
                    IterationOrder(missing_scientific, seed)
                        \o SelectSeq(IterationOrder(jd_keywords \ resume_keywords, seed),
                                     not_missing_scientific)
            IN  [match_score |-> Round2(match_score),
                 common_keywords |-> Take(all_common, 20),
                 missing_keywords |-> Take(all_missing, 20),
                 jd_keyword_count |-> total_jd_keywords + total_jd_scientific,
                 resume_keyword_count |->
                     Cardinality(resume_keywords) + Cardinality(resume_scientific),
                 scientific_keywords_matched |-> Cardinality(common_scientific),
                 scientific_keywords_total |-> total_jd_scientific,
                 important_keywords_matched |-> Len(matched_important),
                 important_keywords_total |-> Len(jd_important),
                 matched_important_keywords |-> Take(matched_important, 10)]
        with_important(jd_important) ==
            result(_extract_scientific_keywords(resume_text),
                   _extract_scientific_keywords(jd_text),
                   _extract_keywords(resume_tokens),
                   _extract_keywords(jd_tokens),
                   jd_important,
                   SelectSeq(jd_important, in_resume))
    IN  with_important(_extract_important_keywords(jd_text, seed))

MaxMatchWords == 2

MatchVocabulary == {"Python", "docker", "sales", "JIRA", "the"}

MatchInit ==
    /\ pc = "ready"
    /\ args \in [resume_text : TextsOver(MatchVocabulary, MaxMatchWords),
                 jd_text : TextsOver(MatchVocabulary, MaxMatchWords)]
    /\ ret = None
    /\ artifact = None
    /\ model = None
    /\ feature_names = <<>>
    /\ feature_array = <<>>
    /\ hash_seed = 0

ComputeMatchScore ==
    /\ pc = "ready"
    /\ ret' = compute_match_score(args.resume_text, args.jd_text, hash_seed)
    /\ pc' = "done"
    /\ UNCHANGED <<args, artifact, model, feature_names, feature_array, hash_seed>>

SpecMatch == MatchInit /\ [][ComputeMatchScore]_vars

\* The keyword lists of compute_match_score: the same call on longer texts,
\* under each hash seed.
MaxHashSeed == 1

HashSeeds == 0..MaxHashSeed

MaxListPhrases == 1

ListVocabulary ==
    {"GitHub GitLab PostgreSQL MySQL JavaScript TypeScript Golang PyTorch REST API AWS GCP NLP CSS XML",
     "Python docker sales jira", "Python sales", "JIRA app.py",
     "the Senior Engineer"}

MatchListsInit ==
    /\ pc = "ready"
    /\ args \in [resume_text : TextsOver(ListVocabulary, MaxListPhrases),
                 jd_text : TextsOver(ListVocabulary, MaxListPhrases)]
    /\ ret = None
    /\ artifact = None
    /\ model = None
    /\ feature_names = <<>>
    /\ feature_array = <<>>
    /\ hash_seed \in HashSeeds

SpecMatchLists == MatchListsInit /\ [][ComputeMatchScore]_vars

-----------------------------------------------------------------------------
(* Properties of the match score.                                          *)

\* r is v rounded to 2 decimals: a multiple of 1/100 at most 1/200 from v.
IsRounded2(r, v) ==
    /\ 100 % r[2] = 0
    /\ RLeq(RAdd(r, <<-1, 200>>), v)
    /\ RLeq(v, RAdd(r, <<1, 200>>))

DomainOf(text) == _extract_scientific_keywords(text)

GeneralOf(text) == _extract_keywords(_tokenize(text))

\* 0.7 x scientificScore + 0.3 x generalScore of the claim, each score
\* |resume /\ JD| / |JD| x 100, or 0 when the JD set is empty.
ClaimedMatchScore(resume_text, jd_text) ==
    LET cs == Cardinality(DomainOf(resume_text) \cap DomainOf(jd_text))
        ts == Cardinality(DomainOf(jd_text))
        cg == Cardinality(GeneralOf(resume_text) \cap GeneralOf(jd_text))
        tg == Cardinality(GeneralOf(jd_text))
    IN  RAdd(IF ts = 0 THEN RInt(0) ELSE Rat(70 * cs, ts),
             IF tg = 0 THEN RInt(0) ELSE Rat(30 * cg, tg))

NoJdKeywords == DomainOf(args.jd_text) = {} /\ GeneralOf(args.jd_text) = {}

NoSharedKeywords ==
    /\ DomainOf(args.resume_text) \cap DomainOf(args.jd_text) = {}
    /\ GeneralOf(args.resume_text) \cap GeneralOf(args.jd_text) = {}

\* C2 as stated: match_score = 0 if and only if the JD yields no domain and
\* no general keyword.
C2_Original ==
    pc = "done" => (ret.match_score = RInt(0) <=> NoJdKeywords)

\* C2 amended: match_score = 0 whenever the JD yields no domain and no
\* general keyword, and also whenever the resume shares none of the JD's
\* keywords; a non-zero match_score needs a shared keyword.
C2_ZeroWithoutSharedKeywords ==
    pc = "done" =>
        /\ (NoJdKeywords => ret.match_score = RInt(0))
        /\ (NoSharedKeywords => ret.match_score = RInt(0))

\* A JD with keywords, none of them in the resume: the score is 0.
C2_Witness ==
    /\ pc = "done"
    /\ ~NoJdKeywords
    /\ DomainOf(args.resume_text) # {}
    /\ NoSharedKeywords
    /\ ret.match_score = RInt(0)

\* C3 as stated: match_score is exactly 0.7 x scientificScore + 0.3 x
\* generalScore and lies in [0, 100].
C3_Original ==
    pc = "done" =>
        /\ ret.match_score = ClaimedMatchScore(args.resume_text, args.jd_text)
        /\ RLeq(RInt(0), ret.match_score)
        /\ RLeq(ret.match_score, RInt(100))

\* C3 amended: match_score is 0.7 x scientificScore + 0.3 x generalScore
\* rounded to 2 decimals, and lies in [0, 100].
C3_RoundedWeightedScore ==
    pc = "done" =>
        /\ IsRounded2(ret.match_score,
                      ClaimedMatchScore(args.resume_text, args.jd_text))
        /\ RLeq(RInt(0), ret.match_score)
        /\ RLeq(ret.match_score, RInt(100))

\* One of three JD domain keywords shared and no JD general keyword:
\* 0.7 x 33.33.. + 0.3 x 0 = 23.33
C3_Witness ==
    /\ pc = "done"
    /\ Cardinality(DomainOf(args.jd_text)) = 3
    /\ Cardinality(DomainOf(args.resume_text) \cap DomainOf(args.jd_text)) = 1
    /\ Cardinality(GeneralOf(args.jd_text)) = 0
    /\ ret.match_score = <<2333, 100>>

\* C11 as stated: the domain keyword set and the general keyword set of a
\* text are disjoint.
C11_Original ==
    pc = "done" =>
        /\ DomainOf(args.resume_text) \cap GeneralOf(args.resume_text) = {}
        /\ DomainOf(args.jd_text) \cap GeneralOf(args.jd_text) = {}

\* C12 as stated: _extract_keywords keeps every token that is not a stop
\* word and removes every stop word.
C12_Original ==
    pc = "done" =>
        \A token \in Range(_tokenize(args.jd_text)) :
            token \in _extract_keywords(_tokenize(args.jd_text))
                <=> token \notin MatcherStopWords

\* C13 as stated: the output is fixed by the input alone, including which
\* keywords survive the truncation and in what order; whatever seed the
\* interpreter hashes str with, the call returns the same lists.
C13_Original ==
    pc = "done" =>
        \A seed \in HashSeeds :
            ret = compute_match_score(args.resume_text, args.jd_text, seed)

NoDuplicates(q) == \A i, j \in 1..Len(q) : q[i] = q[j] => i = j

\* No member of first comes after a non-member in q.
MembersFirst(q, first) ==
    \A i, j \in 1..Len(q) : (i < j /\ q[j] \in first) => q[i] \in first

\* C14: common_keywords and missing_keywords hold at most 20 entries and
\* matched_important_keywords at most 10; in common_keywords and in
\* missing_keywords every domain keyword comes before every general keyword;
\* no list holds the same keyword twice.
C14_ListShape ==
    pc = "done" =>
        LET resume_domain == DomainOf(args.resume_text)
            jd_domain == DomainOf(args.jd_text)
        IN  /\ Len(ret.common_keywords) <= 20
            /\ Len(ret.missing_keywords) <= 20
            /\ Len(ret.matched_important_keywords) <= 10
            /\ MembersFirst(ret.common_keywords, resume_domain \cap jd_domain)
            /\ MembersFirst(ret.missing_keywords, jd_domain \ resume_domain)
            /\ Range(ret.common_keywords) \cap SCIENTIFIC_DOMAINS
                   \subseteq resume_domain \cap jd_domain
            /\ Range(ret.missing_keywords) \cap SCIENTIFIC_DOMAINS
                   \subseteq jd_domain \ resume_domain
            /\ NoDuplicates(ret.common_keywords)
            /\ NoDuplicates(ret.missing_keywords)
            /\ NoDuplicates(ret.matched_important_keywords)

\* More than 20 domain keywords in common and more than 10 important
\* keywords matched: both lists are cut.
C14_Witness ==
    /\ pc = "done"
    /\ ret.scientific_keywords_matched > 20
    /\ Len(ret.common_keywords) = 20
    /\ ret.important_keywords_matched > 10
    /\ Len(ret.matched_important_keywords) = 10

\* Domain and general keywords in one list, and a list of missing keywords.
C14_WitnessMixed ==
    /\ pc = "done"
    /\ \E i, j \in 1..Len(ret.common_keywords) :
           /\ ret.common_keywords[i] \in DomainOf(args.jd_text)
           /\ ret.common_keywords[j] \notin DomainOf(args.jd_text)
    /\ \E i, j \in 1..Len(ret.missing_keywords) :
           /\ ret.missing_keywords[i] \in DomainOf(args.jd_text)
           /\ ret.missing_keywords[j] \notin DomainOf(args.jd_text)

\* C29: no keyword is in both common_keywords and missing_keywords.
C29_Original ==
    pc = "done" =>
        Range(ret.common_keywords) \cap Range(ret.missing_keywords) = {}

-----------------------------------------------------------------------------
(* PowerVerbSuggester.get_power_verb_stats                                 *)

\* The keys of VERB_REPLACEMENTS, in insertion order.
WeakVerbs ==
    <<"did", "made", "got", "helped", "worked", "used", "fixed", "changed",
      "started", "managed", "led", "improved", "increased", "decreased",
      "created", "wrote", "talked", "showed", "found", "gave", "took", "went",
      "saw", "tried", "kept", "put", "set", "ran", "looked", "asked", "told",
      "met", "left", "came", "said", "thought", "knew", "learned", "taught",
      "built", "sold", "bought", "sent", "received", "opened", "closed",
      "moved", "stayed", "turned", "pulled", "pushed", "held", "brought",
      "called", "played", "read", "heard", "felt", "seemed", "became", "began",
      "ended", "happened", "mattered", "wanted", "needed">>

StrongVerbs ==
    <<"achieved", "accomplished", "executed", "implemented", "developed",
      "created", "designed", "built", "established", "launched",
      "managed", "led", "directed", "oversaw", "coordinated",
      "improved", "enhanced", "optimized", "increased", "boosted",
      "reduced", "minimized", "resolved", "solved", "delivered",
      "produced", "generated", "secured", "obtained", "acquired">>

\* len(re.findall(r'\b' + re.escape(verb) + r'\b', s)), verb made of word
\* characters: matches cannot overlap.
CountWord(s, verb) ==
    Cardinality({i \in 1..(Len(s) - Len(verb) + 1) :
        /\ SubSeq(s, i, i + Len(verb) - 1) = verb
        /\ BoundaryAt(s, i)
        /\ BoundaryAt(s, i + Len(verb))})

\* sum(q)
RECURSIVE SumSeq(_)
SumSeq(q) ==
    IF Len(q) = 0 THEN 0
    ELSE IF Len(q) = 1 THEN q[1]
    ELSE LET h == Len(q) \div 2
         IN  SumSeq(SubSeq(q, 1, h)) + SumSeq(SubSeq(q, h + 1, Len(q)))

\* e put after the entries of q whose count is at least its own
InsertByCount(q, e) ==
    LET k == Cardinality({i \in 1..Len(q) : q[i].count >= e.count})
    IN  SubSeq(q, 1, k) \o <<e>> \o SubSeq(q, k + 1, Len(q))

\* sorted(q, key=lambda x: x['count'], reverse=True): stable
RECURSIVE SortedByCountDesc(_)
SortedByCountDesc(q) ==
    IF Len(q) = 0 THEN <<>>
    ELSE InsertByCount(SortedByCountDesc(SubSeq(q, 1, Len(q) - 1)), q[Len(q)])

\* PowerVerbScore with the strong verbs left out of the denominator.
PowerVerbScore_WeakDenominator(weak_verb_count, strong_verb_count) ==
    Round2(RScale(Rat(strong_verb_count, Max(weak_verb_count, 1)), 100))

PowerVerbScore(weak_verb_count, strong_verb_count) ==
    Round2(RScale(Rat(strong_verb_count,
                      Max(weak_verb_count + strong_verb_count, 1)), 100))

get_power_verb_stats(resume_text) ==
    LET text_lower == Lower(resume_text)
        weak_verbs_found(weak_counts, found_at) ==
            [k \in 1..Len(found_at) |->
                [verb |-> WeakVerbs[found_at[k]], count |-> weak_counts[found_at[k]]]]
        top(ranked) == SubSeq(ranked, 1, Min(10, Len(ranked)))
        stats(weak_counts, weak_verb_count, strong_verb_count) ==
            [weak_verb_count |-> weak_verb_count,
             strong_verb_count |-> strong_verb_count,
             weak_verbs_found |->
                 top(SortedByCountDesc(
                         weak_verbs_found(weak_counts,
                             SelectSeq([i \in 1..Len(WeakVerbs) |-> i],
                                       LAMBDA i : weak_counts[i] > 0)))),
             power_verb_score |-> PowerVerbScore(weak_verb_count, strong_verb_count)]
        counted(weak_counts) ==
            stats(weak_counts, SumSeq(weak_counts),
                  SumSeq([i \in 1..Len(StrongVerbs) |->
                             CountWord(text_lower, StrongVerbs[i])]))
    IN  counted(Tabulated([i \in 1..Len(WeakVerbs) |->
                              CountWord(text_lower, WeakVerbs[i])]))

MaxVerbWords == 3

VerbVocabulary == {"did", "Managed", "developed", "redid", "reports."}

VerbsInit ==
    /\ pc = "ready"
    /\ args \in [resume_text : TextsOver(VerbVocabulary, MaxVerbWords)]
    /\ ret = None
    /\ artifact = None
    /\ model = None
    /\ feature_names = <<>>
    /\ feature_array = <<>>
    /\ hash_seed = 0

GetPowerVerbStats ==
    /\ pc = "ready"
    /\ ret' = get_power_verb_stats(args.resume_text)
    /\ pc' = "done"
    /\ UNCHANGED <<args, artifact, model, feature_names, feature_array, hash_seed>>

SpecVerbs == VerbsInit /\ [][GetPowerVerbStats]_vars

-----------------------------------------------------------------------------
(* Properties of the power-verb score.                                     *)

\* The text holds no word of the weak-verb table or the strong-verb list.
NoVerbIn(text) ==
    \A w \in Range(WordRuns(Lower(text))) :
        w \notin Range(WeakVerbs) \cup Range(StrongVerbs)

\* C8: power_verb_score is strong_verb_count / max(weak_verb_count +
\* strong_verb_count, 1) x 100 rounded to 2 decimals, lies in [0, 100], and
\* is 0 for a text without weak and strong verbs.
C8_PowerVerbScore ==
    pc = "done" =>
        /\ IsRounded2(ret.power_verb_score,
                      Rat(100 * ret.strong_verb_count,
                          Max(ret.weak_verb_count + ret.strong_verb_count, 1)))
        /\ RLeq(RInt(0), ret.power_verb_score)
        /\ RLeq(ret.power_verb_score, RInt(100))
        /\ (NoVerbIn(args.resume_text) =>
                /\ ret.weak_verb_count = 0 /\ ret.strong_verb_count = 0
                /\ ret.power_verb_score = RInt(0))

\* One weak verb and two strong ones, one of them also a weak verb:
\* 2 / 4 x 100.
C8_Witness ==
    /\ pc = "done"
    /\ args.resume_text = "did Managed developed"
    /\ ret.weak_verb_count = 2
    /\ ret.strong_verb_count = 2
    /\ ret.power_verb_score = RInt(50)

\* A text without verbs reaches the floor of the denominator.
C8_WitnessNoVerbs ==
    /\ pc = "done"
    /\ args.resume_text = "redid reports."
    /\ ret.power_verb_score = RInt(0)

\* C28: every verb occurrence is counted in at most one of weak_verb_count
\* and strong_verb_count, and a text made only of verbs of the strong-verb
\* list has power_verb_score 100.
C28_Original ==
    pc = "done" =>
        \E words \in {WordRuns(Lower(args.resume_text))} :
            /\ ret.weak_verb_count + ret.strong_verb_count <= Len(words)
            /\ (/\ words # << >>
                /\ \A k \in 1..Len(words) : words[k] \in Range(StrongVerbs))
               => ret.power_verb_score = RInt(100)

-----------------------------------------------------------------------------
(* PowerVerbSuggester.find_weak_verbs                                      *)

VERB_REPLACEMENTS ==
    "did" :> <<"performed", "executed", "accomplished", "achieved">> @@
    "made" :> <<"created", "developed", "built", "produced", "established">> @@
    "got" :> <<"obtained", "acquired", "secured", "attained">> @@
    "helped" :> <<"assisted", "supported", "facilitated", "enabled", "contributed">> @@
    "worked" :> <<"collaborated", "operated", "functioned", "performed">> @@
    "used" :> <<"utilized", "leveraged", "employed", "applied">> @@
    "fixed" :> <<"resolved", "repaired", "corrected", "remediated">> @@
    "changed" :> <<"transformed", "modified", "improved", "enhanced">> @@
    "started" :> <<"initiated", "launched", "established", "founded">> @@
    "managed" :> <<"oversaw", "directed", "orchestrated", "coordinated">> @@
    "led" :> <<"spearheaded", "headed", "guided", "championed">> @@
    "improved" :> <<"enhanced", "optimized", "refined", "upgraded">> @@
    "increased" :> <<"boosted", "amplified", "expanded", "elevated">> @@
    "decreased" :> <<"reduced", "minimized", "lowered", "cut">> @@
    "created" :> <<"designed", "developed", "built", "engineered">> @@
    "wrote" :> <<"authored", "composed", "drafted", "penned">> @@
    "talked" :> <<"communicated", "presented", "addressed", "conveyed">> @@
    "showed" :> <<"demonstrated", "exhibited", "illustrated", "presented">> @@
    "found" :> <<"identified", "discovered", "uncovered", "located">> @@
    "gave" :> <<"provided", "delivered", "supplied", "furnished">> @@
    "took" :> <<"assumed", "undertook", "handled", "managed">> @@
    "went" :> <<"traveled", "attended", "participated">> @@
    "saw" :> <<"observed", "monitored", "tracked", "analyzed">> @@
    "tried" :> <<"attempted", "endeavored", "pursued", "sought">> @@
    "kept" :> <<"maintained", "preserved", "sustained", "retained">> @@
    "put" :> <<"placed", "positioned", "installed", "deployed">> @@
    "set" :> <<"established", "configured", "arranged", "organized">> @@
    "ran" :> <<"executed", "operated", "administered", "managed">> @@
    "looked" :> <<"examined", "reviewed", "analyzed", "inspected">> @@
    "asked" :> <<"inquired", "requested", "solicited", "consulted">> @@
    "told" :> <<"informed", "notified", "advised", "communicated">> @@
    "met" :> <<"collaborated", "coordinated", "convened", "engaged">> @@
    "left" :> <<"departed", "transitioned", "moved">> @@
    "came" :> <<"arrived", "joined", "entered">> @@
    "said" :> <<"stated", "expressed", "articulated", "communicated">> @@
    "thought" :> <<"analyzed", "evaluated", "considered", "assessed">> @@
    "knew" :> <<"understood", "comprehended", "grasped", "mastered">> @@
    "learned" :> <<"mastered", "acquired", "gained expertise in">> @@
    "taught" :> <<"trained", "instructed", "educated", "mentored">> @@
    "built" :> <<"constructed", "developed", "engineered", "architected">> @@
    "sold" :> <<"marketed", "promoted", "distributed", "commercialized">> @@
    "bought" :> <<"procured", "purchased", "acquired", "sourced">> @@
    "sent" :> <<"delivered", "transmitted", "dispatched", "forwarded">> @@
    "received" :> <<"obtained", "acquired", "attained", "secured">> @@
    "opened" :> <<"launched", "initiated", "established", "introduced">> @@
    "closed" :> <<"finalized", "completed", "concluded", "wrapped up">> @@
    "moved" :> <<"relocated", "transferred", "transitioned", "shifted">> @@
    "stayed" :> <<"maintained", "preserved", "sustained", "retained">> @@
    "turned" :> <<"transformed", "converted", "changed", "modified">> @@
    "pulled" :> <<"extracted", "retrieved", "obtained", "acquired">> @@
    "pushed" :> <<"promoted", "advanced", "propelled", "drove">> @@
    "held" :> <<"maintained", "preserved", "sustained", "retained">> @@
    "brought" :> <<"delivered", "introduced", "provided", "supplied">> @@
    "called" :> <<"contacted", "reached out", "communicated", "connected">> @@
    "played" :> <<"performed", "executed", "operated", "functioned">> @@
    "read" :> <<"reviewed", "analyzed", "examined", "studied">> @@
    "heard" :> <<"listened", "attended", "participated">> @@
    "felt" :> <<"perceived", "recognized", "identified", "detected">> @@
    "seemed" :> <<"appeared", "demonstrated", "exhibited">> @@
    "became" :> <<"transformed into", "evolved into", "developed into">> @@
    "began" :> <<"initiated", "commenced", "launched", "started">> @@
    "ended" :> <<"concluded", "finalized", "completed", "wrapped up">> @@
    "happened" :> <<"occurred", "transpired", "took place">> @@
    "mattered" :> <<"impacted", "influenced", "affected", "contributed">> @@
    "wanted" :> <<"sought", "desired", "aimed for", "pursued">> @@
    "needed" :> <<"required", "demanded", "necessitated">>

\* strong_verbs[:3] with the cut left out
Suggestions_All(weak_verb) == VERB_REPLACEMENTS[weak_verb]

\* strong_verbs[:3]
Suggestions(weak_verb) == Take(VERB_REPLACEMENTS[weak_verb], 3)

\* A weak verb is made of letters, so r'\b' + verb + r'\b' matches exactly
\* the word runs of text_lower that are the verb; no two matches start at
\* the same place, so the sort by position leaves no ties.
find_weak_verbs(resume_text) ==
    LET text_lower == Lower(resume_text)
        word(i) == SubSeq(text_lower, i, RunEnd(text_lower, i, WordChars))
        starts == {i \in RunStarts(text_lower, WordChars) :
                      word(i) \in Range(WeakVerbs)}
        finding(i) ==
            LET start == Max(0, (i - 1) - 20)
                end == Min(Len(resume_text), (i - 1) + Len(word(i)) + 20)
            IN  [weak_verb |-> word(i),
                 suggestions |-> Suggestions(word(i)),
                 context |-> Strip(SubSeq(resume_text, start + 1, end)),
                 position |-> i - 1]
        nth(k) == CHOOSE i \in starts : Cardinality({j \in starts : j < i}) = k - 1
        findings == Tabulated([k \in 1..Cardinality(starts) |-> finding(nth(k))])
        context_key ==
            Tabulated([k \in 1..Len(findings) |->
                          <<findings[k].weak_verb, Take(findings[k].context, 30)>>])
        unique == {k \in 1..Len(findings) :
                      \A j \in 1..(k - 1) : context_key[j] # context_key[k]}
    IN  Take(AtIndices(findings, unique), 20)

MaxFindingPhrases == 3

FindingVocabulary ==
    {"did made got helped worked used fixed changed started managed led",
     "wrote talked showed found gave took went saw tried kept put",
     "I did some work. I made a website.", "Managed; undid", "reports"}

FindingsInit ==
    /\ pc = "ready"
    /\ args \in [resume_text : TextsOver(FindingVocabulary, MaxFindingPhrases)]
    /\ ret = None
    /\ artifact = None
    /\ model = None
    /\ feature_names = <<>>
    /\ feature_array = <<>>
    /\ hash_seed = 0

FindWeakVerbs ==
    /\ pc = "ready"
    /\ ret' = find_weak_verbs(args.resume_text)
    /\ pc' = "done"
    /\ UNCHANGED <<args, artifact, model, feature_names, feature_array, hash_seed>>

SpecFindings == FindingsInit /\ [][FindWeakVerbs]_vars

-----------------------------------------------------------------------------
(* Properties of find_weak_verbs                                           *)

\* The places (0-based) where the weak verb stands as a whole word.
OccurrencesOf(text, verb) ==
    {i - 1 : i \in {j \in 1..(Len(text) - Len(verb) + 1) :
                       /\ SubSeq(text, j, j + Len(verb) - 1) = verb
                       /\ BoundaryAt(text, j)
                       /\ BoundaryAt(text, j + Len(verb))}}

\* (weak_verb, first 30 characters of the stripped context) of the match
\* of verb at the 0-based place p.
KeyAt(text, verb, p) ==
    <<verb, Take(Strip(SubSeq(text, Max(0, p - 20) + 1,
                               Min(Len(text), p + Len(verb) + 20))), 30)>>

\* C15: at most 20 findings, each with at most 3 suggestions, at strictly
\* increasing positions, no two with the same (weak_verb, first 30
\* characters of context); the 20 are the first of the sorted, de-duplicated
\* matches: a match that is not reported repeats the key of an earlier
\* reported one or lies after the 20th finding.
C15_FindingsShape ==
    pc = "done" =>
        LET text == args.resume_text
            reported == {<<ret[k].weak_verb, ret[k].position>> : k \in 1..Len(ret)}
        IN  /\ Len(ret) <= 20
            /\ \A k \in 1..Len(ret) : Len(ret[k].suggestions) <= 3
            /\ \A k \in 1..(Len(ret) - 1) : ret[k].position < ret[k + 1].position
            /\ \A i, j \in 1..Len(ret) :
                   (/\ ret[i].weak_verb = ret[j].weak_verb
                    /\ Take(ret[i].context, 30) = Take(ret[j].context, 30))
                   => i = j
            /\ \A k \in 1..Len(ret) :
                   /\ ret[k].position \in OccurrencesOf(Lower(text), ret[k].weak_verb)
                   /\ KeyAt(text, ret[k].weak_verb, ret[k].position)
                          = <<ret[k].weak_verb, Take(ret[k].context, 30)>>
            /\ \A v \in Range(WeakVerbs) :
                   \A p \in OccurrencesOf(Lower(text), v) :
                       \/ <<v, p>> \in reported
                       \/ \E k \in 1..Len(ret) :
                              /\ ret[k].position < p
                              /\ KeyAt(text, ret[k].weak_verb, ret[k].position)
                                     = KeyAt(text, v, p)
                       \/ Len(ret) = 20 /\ ret[20].position < p

\* More than 20 matches with different keys: the list is cut at 20.
C15_Witness ==
    /\ pc = "done"
    /\ Len(ret) = 20
    /\ \E v \in Range(WeakVerbs) :
           \E p \in OccurrencesOf(Lower(args.resume_text), v) :
               /\ ret[20].position < p
               /\ \A k \in 1..20 :
                      KeyAt(args.resume_text, ret[k].weak_verb, ret[k].position)
                          # KeyAt(args.resume_text, v, p)

\* A match dropped as a duplicate, with fewer than 20 findings.
C15_WitnessDuplicate ==
    /\ pc = "done"
    /\ Len(ret) < 20
    /\ \E v \in Range(WeakVerbs) :
           \E p \in OccurrencesOf(Lower(args.resume_text), v) :
               \A k \in 1..Len(ret) : ret[k].position # p

-----------------------------------------------------------------------------
(* FeatureExtractor                                                        *)

FeatureStopWords ==
    {"the", "a", "an", "and", "or", "but", "in", "on", "at", "to", "for",
     "of", "with", "by", "from", "as", "is", "was", "are", "were", "been",
     "be", "have", "has", "had", "do", "does", "did", "will", "would",
     "should", "could", "may", "might", "must", "can"}

\* _calculate_keyword_density as the count of the meaningful words, not
\* divided by the number of words.
_calculate_keyword_density_Count(text) ==
    LET words == Split(Lower(text))
        meaningful_words ==
            SelectSeq(words, LAMBDA w : w \notin FeatureStopWords /\ Len(w) > 2)
    IN  RInt(Len(meaningful_words))

_calculate_keyword_density(text) ==
    LET words == Split(Lower(text))
        meaningful_words ==
            SelectSeq(words, LAMBDA w : w \notin FeatureStopWords /\ Len(w) > 2)
    IN  IF Len(words) = 0 THEN RInt(0)
        ELSE Rat(Len(meaningful_words), Len(words))

get_feature_names ==
    <<"text_length", "word_count", "sentence_count", "keyword_density",
      "action_verbs_count", "weak_verbs_count", "power_verb_ratio",
      "has_numbers", "numbers_count", "percentage_mentions",
      "ats_score", "has_education", "has_experience", "has_skills",
      "has_contact", "has_bullets", "section_count",
      "jd_match_score", "common_keywords",
      "has_email", "has_phone", "achievement_keywords">>

\* len(match_result['common_keywords']): the domain keywords in common, then
\* the general ones not among them, cut to 20.
CommonKeywordsLen(resume_text, jd_text) ==
    LET common_scientific == _extract_scientific_keywords(resume_text)
                                 \cap _extract_scientific_keywords(jd_text)
        common_keywords == _extract_keywords(_tokenize(resume_text))
                               \cap _extract_keywords(_tokenize(jd_text))
    IN  Min(20, Cardinality(common_scientific)
                    + Cardinality(common_keywords \ common_scientific))

AchievementKeywords ==
    {"increased", "decreased", "improved", "reduced", "achieved", "accomplished"}

\* The features of the resume text alone.
TextFeatures(resume_text) ==
    LET features(verb_stats, numbers, ats_result) ==
            [text_length |-> Len(resume_text),
             word_count |-> Len(Split(resume_text)),
             sentence_count |->
                 Cardinality(RunStarts(resume_text, {".", "!", "?"})) + 1,
             keyword_density |-> _calculate_keyword_density(resume_text),
             action_verbs_count |-> verb_stats.strong_verb_count,
             weak_verbs_count |-> verb_stats.weak_verb_count,
             power_verb_ratio |-> RDivInt(verb_stats.power_verb_score, 100),
             has_numbers |-> IF numbers # {} THEN 1 ELSE 0,
             numbers_count |-> Cardinality(numbers),
             percentage_mentions |->
                 Cardinality({i \in numbers :
                     LET j == RunEnd(resume_text, i, DigitChars)
                     IN  j < Len(resume_text) /\ CharAt(resume_text, j + 1) = "%"}),
             ats_score |-> RDivInt(ats_result.ats_score, 100),
             has_education |-> IF ats_result.section_checks.education THEN 1 ELSE 0,
             has_experience |-> IF ats_result.section_checks.experience THEN 1 ELSE 0,
             has_skills |-> IF ats_result.section_checks.skills THEN 1 ELSE 0,
             has_contact |-> IF ats_result.contact_check.complete THEN 1 ELSE 0,
             has_bullets |-> IF ats_result.formatting_checks.has_bullets THEN 1 ELSE 0,
             section_count |-> SumValues(ats_result.section_checks),
             has_email |-> IF Search(resume_text, EmailPattern) THEN 1 ELSE 0,
             has_phone |-> IF Search(resume_text, UsPhonePattern) THEN 1 ELSE 0,
             achievement_keywords |->
                 Cardinality({kw \in AchievementKeywords :
                                 Contains(Lower(resume_text), kw)})]
    IN  features(get_power_verb_stats(resume_text),
                 RunStarts(resume_text, DigitChars),
                 check_compliance(resume_text))

\* JdFeatures with common_keywords set on the JD branch alone.
JdFeatures_ScoreOnly(resume_text, jd_text) ==
    IF jd_text # ""
    THEN [jd_match_score |->
              RDivInt(compute_match_score(resume_text, jd_text, 0).match_score, 100),
          common_keywords |-> CommonKeywordsLen(resume_text, jd_text)]
    ELSE [jd_match_score |-> RInt(0)]

\* The JD match features: both keys are set on both branches.
JdFeatures(resume_text, jd_text) ==
    IF jd_text # ""
    THEN [jd_match_score |->
              RDivInt(compute_match_score(resume_text, jd_text, 0).match_score, 100),
          common_keywords |-> CommonKeywordsLen(resume_text, jd_text)]
    ELSE [jd_match_score |-> RInt(0), common_keywords |-> 0]

extract_features(resume_text, jd_text) ==
    TextFeatures(resume_text) @@ JdFeatures(resume_text, jd_text)

MaxContactWords == 2

ContactVocabulary ==
    {"a@b.co", "a@b", "555-123-4567", "(555) 123-4567", "+1 555 123 4567",
     "Phone:"}

FeaturesInit ==
    /\ pc = "ready"
    /\ args \in [resume_text : TextsOver(ContactVocabulary, MaxContactWords),
                 jd_text : {"", "Python"}]
    /\ ret = None
    /\ artifact = None
    /\ model = None
    /\ feature_names = <<>>
    /\ feature_array = <<>>
    /\ hash_seed = 0

ExtractFeatures ==
    /\ pc = "ready"
    /\ ret' = extract_features(args.resume_text, args.jd_text)
    /\ pc' = "done"
    /\ UNCHANGED <<args, artifact, model, feature_names, feature_array, hash_seed>>

SpecFeatures == FeaturesInit /\ [][ExtractFeatures]_vars

-----------------------------------------------------------------------------
(* Properties of extract_features                                          *)

\* C16 as stated: feature has_email is 1 exactly when the ATS contact check
\* finds an email, and feature has_phone is 1 exactly when it finds a phone.
C16_Original ==
    pc = "done" =>
        /\ ret.has_email = 1 <=> _check_contact_info(args.resume_text).has_email
        /\ ret.has_phone = 1 <=> _check_contact_info(args.resume_text).has_phone

-----------------------------------------------------------------------------
(* ResumeScorer._rule_based_score                                          *)

\* NumbersComponent without the cap of 15 points.
NumbersComponent_Uncapped(has_numbers, numbers_count) ==
    IF has_numbers # 0 THEN Rat(numbers_count, 2) ELSE RInt(0)

\* if features['has_numbers']: score += min(15, numbers_count * 0.5)
NumbersComponent(has_numbers, numbers_count) ==
    IF has_numbers # 0 THEN RMin(RInt(15), Rat(numbers_count, 2)) ELSE RInt(0)

_rule_based_score(features) ==
    LET ats == RScale(features.ats_score, 30)
        section_score ==
            RScale(Rat(features.has_education + features.has_experience
                           + features.has_skills + features.has_contact, 4), 20)
        verbs == RScale(features.power_verb_ratio, 15)
        numbers == NumbersComponent(features.has_numbers, features.numbers_count)
        density == RScale(features.keyword_density, 10)
        jd == IF RLt(RInt(0), features.jd_match_score)
              THEN RScale(features.jd_match_score, 10) ELSE RInt(0)
        score == RAdd(RAdd(RAdd(ats, section_score), RAdd(verbs, numbers)),
                      RAdd(density, jd))
    IN  RMin(RInt(100), RMax(RInt(0), score))

\* The keys _rule_based_score reads, as extract_features sets them: the
\* flags are 0 or 1, has_numbers is 1 exactly when numbers were found, and
\* jd_match_score is 0.0 when no JD is supplied.
RuleArgs ==
    LET \* The values the fractional features take in the vectors of SpecRule.
        RatioGrid == {RInt(0), Rat(3, 7), Rat(1, 2), RInt(1)}
        CountGrid == {0, 1, 7, 30, 40}
    IN
    {[jd_supplied |-> a.jd_supplied,
      features |->
         [ats_score |-> a.ats_score,
          has_education |-> a.sections[1], has_experience |-> a.sections[2],
          has_skills |-> a.sections[3], has_contact |-> a.sections[4],
          power_verb_ratio |-> a.power_verb_ratio,
          has_numbers |-> IF a.numbers_count > 0 THEN 1 ELSE 0,
          numbers_count |-> a.numbers_count,
          keyword_density |-> a.keyword_density,
          jd_match_score |-> IF a.jd_supplied THEN a.jd_match_score ELSE RInt(0)]] :
     a \in [jd_supplied : BOOLEAN, ats_score : {RInt(0), Rat(19, 50), RInt(1)},
            sections : {<<0, 0, 0, 0>>, <<1, 0, 0, 0>>, <<1, 1, 0, 1>>, <<1, 1, 1, 1>>},
            power_verb_ratio : {RInt(0), Rat(1, 2), RInt(1)},
            numbers_count : CountGrid,
            keyword_density : RatioGrid, jd_match_score : RatioGrid]}

RuleInit ==
    /\ pc = "ready"
    /\ args \in RuleArgs
    /\ ret = None
    /\ artifact = None
    /\ model = None
    /\ feature_names = <<>>
    /\ feature_array = <<>>
    /\ hash_seed = 0

RuleBasedScore ==
    /\ pc = "ready"
    /\ ret' = _rule_based_score(args.features)
    /\ pc' = "done"
    /\ UNCHANGED <<args, artifact, model, feature_names, feature_array, hash_seed>>

SpecRule == RuleInit /\ [][RuleBasedScore]_vars

-----------------------------------------------------------------------------
(* Properties of _rule_based_score                                         *)

\* The weighted sum the rule formula is stated to clamp.
ClaimedRuleSum(f, jd_supplied) ==
    LET add(x, y) == RAdd(x, y)
        sections == Rat(20 * (f.has_education + f.has_experience
                                  + f.has_skills + f.has_contact), 4)
        numbers == IF f.has_numbers = 1
                   THEN (IF f.numbers_count >= 30 THEN RInt(15)
                         ELSE Rat(f.numbers_count, 2))
                   ELSE RInt(0)
        jd == IF jd_supplied THEN RScale(f.jd_match_score, 10) ELSE RInt(0)
    IN  add(add(add(RScale(f.ats_score, 30), sections),
                add(RScale(f.power_verb_ratio, 15), numbers)),
            add(RScale(f.keyword_density, 10), jd))

\* C7: the rule-based score is the weighted sum of the six components
\* clamped to [0, 100]; with ats_score 1, the four section flags 1,
\* power_verb_ratio 1, no numbers and no JD it is 65 + keyword_density x 10.
C7_RuleFormula ==
    pc = "done" =>
        LET f == args.features
            sum == ClaimedRuleSum(f, args.jd_supplied)
        IN  /\ ret = (IF RLt(sum, RInt(0)) THEN RInt(0)
                      ELSE IF RLt(RInt(100), sum) THEN RInt(100) ELSE sum)
            /\ (/\ f.ats_score = RInt(1)
                /\ f.has_education + f.has_experience
                       + f.has_skills + f.has_contact = 4
                /\ f.power_verb_ratio = RInt(1)
                /\ f.numbers_count = 0
                /\ ~args.jd_supplied)
               => ret = RAdd(RInt(65), RScale(f.keyword_density, 10))

\* The vector of the example with keyword density 3/7: 65 + 30/7 = 485/7.
C7_Witness ==
    /\ pc = "done"
    /\ args.features.ats_score = RInt(1)
    /\ args.features.has_education + args.features.has_experience
           + args.features.has_skills + args.features.has_contact = 4
    /\ args.features.power_verb_ratio = RInt(1)
    /\ args.features.numbers_count = 0
    /\ ~args.jd_supplied
    /\ args.features.keyword_density = Rat(3, 7)
    /\ ret = Rat(485, 7)

\* A vector of a call with a JD and more than thirty numbers: the numeric
\* component is capped and the JD component is counted.
C7_WitnessCapped ==
    /\ pc = "done"
    /\ args.jd_supplied
    /\ args.features.numbers_count = 40
    /\ args.features.jd_match_score = Rat(1, 2)
    /\ args.features.ats_score = RInt(0)
    /\ args.features.has_education = 0
    /\ args.features.power_verb_ratio = RInt(0)
    /\ args.features.keyword_density = RInt(0)
    /\ ret = RInt(20)

-----------------------------------------------------------------------------
(* ResumeInsights.extract_insights: the projects and achievements of a     *)
(* resume.  The texts of the model break lines with "\n" only and hold no  *)
(* bullet character outside ASCII.                                         *)

TECH_TERMS ==
    {"python", "java", "javascript", "typescript", "c++", "cpp", "c#",
     "csharp", "go", "golang", "rust", "swift", "kotlin", "scala",
     "ruby", "php", "r", "matlab", "sql", "nosql", "html", "css",
     "react", "angular", "vue", "django", "flask", "spring", "express",
     "node", "nodejs", "fastapi", "nextjs", "nuxt", "laravel", "rails",
     "pandas", "numpy", "scikit-learn", "sklearn", "tensorflow",
     "pytorch", "keras", "matplotlib", "seaborn", "spark", "hadoop",
     "airflow", "dbt",
     "aws", "azure", "gcp", "docker", "kubernetes", "helm", "terraform",
     "ansible", "jenkins", "gitlab", "github", "bitbucket", "ci/cd",
     "mysql", "postgresql", "postgres", "mongodb", "redis", "dynamodb",
     "snowflake", "bigquery", "redshift", "elastic", "elasticsearch"}

PROJECT_SECTION_HEADERS ==
    <<"project", "projects", "project experience", "technical projects",
      "academic projects", "capstone", "portfolio">>

ACHIEVEMENT_SECTION_HEADERS ==
    <<"achievement", "achievements", "awards", "honors", "honours",
      "recognition", "leadership", "activities", "co-curricular",
      "extracurricular", "volunteer", "volunteering">>

NOISE_PREFIXES ==
    {"confidence", "achievement", "achievements", "projects", "project",
     "github", "git hub"}

\* The class [A-Za-z0-9 ,&()\/\-] of the title patterns
TitleChars == Letters \cup DigitChars \cup {" ", ",", "&", "(", ")", "/", "-"}

\* Whitespace is collapsed, then leading words that are noise prefixes or
\* technology names are dropped one by one.  The branch on 'confidence '
\* is never taken: such a text has the first token 'confidence', a noise
\* prefix.
_clean_entry_text(text) ==
    LET dropped(w) == Lower(w) \in NOISE_PREFIXES \cup TECH_TERMS
        kept(words) ==
            Join(AtIndices(words,
                     {i \in 1..Len(words) : \E j \in 1..i : ~dropped(words[j])}))
    IN  kept(Split(text))

_trim_title(text) ==
    LET RECURSIVE only(_)
        only(s) ==
            IF Len(s) <= 1 THEN (IF s \in TitleChars THEN s ELSE "")
            ELSE LET h == Len(s) \div 2
                 IN  only(SubSeq(s, 1, h)) \o only(SubSeq(s, h + 1, Len(s)))
        title(cleaned) ==
            IF cleaned = "" THEN "Highlighted Project"
            ELSE Join(Take(Split(cleaned), 10))
    IN  title(Strip(only(text)))

\* A line of at least 3 characters and at most 8 words that ends with a
\* colon, or is upper case, or is title case and made of the characters
\* [A-Za-z0-9 &/+-].
_looks_like_heading(line) ==
    LET isupper ==
            /\ \E i \in 1..Len(line) : CharAt(line, i) \in UpperChars
            /\ \A i \in 1..Len(line) : CharAt(line, i) \notin LowerChars
    IN  IF Len(line) < 3 \/ Len(Split(line)) > 8 THEN FALSE
        ELSE \/ CharAt(line, Len(line)) = ":"
             \/ isupper
             \/ /\ \A i \in 1..Len(line) :
                      CharAt(line, i) \in
                          Letters \cup DigitChars \cup {" ", "&", "/", "+", "-"}
                /\ line = Title(line)

\* A section that no later heading closes: it runs on to the end of the text.
_extract_section_blocks_Unclosed(text, header_keywords) ==
    LET \* text.splitlines()
        splitlines(parts) ==
            IF parts[Len(parts)] = ""
            THEN SubSeq(parts, 1, Len(parts) - 1) ELSE parts
        gathered(stripped, h, next) ==
            AtIndices(stripped,
                {i \in (h + 1)..(next - 1) :
                    \/ stripped[i] # ""
                    \/ i - 1 > h /\ stripped[i - 1] # ""})
        current_lines(stripped, heads, h) ==
            gathered(stripped, h, Len(stripped) + 1)
        RECURSIVE joined(_)
        \* "\n".join(q)
        joined(q) == IF Len(q) = 0 THEN ""
                     ELSE IF Len(q) = 1 THEN q[1]
                     ELSE q[1] \o "\n" \o joined(Tail(q))
        sections(stripped, heads, matched) ==
            AtIndices(Tabulated([i \in 1..Len(stripped) |->
                          IF i \in matched
                          THEN Strip(joined(current_lines(stripped, heads, i)))
                          ELSE ""]),
                      matched)
        under(stripped, heads) ==
            sections(stripped, heads,
                {h \in heads :
                    /\ current_lines(stripped, heads, h) # << >>
                    /\ \E k \in 1..Len(header_keywords) :
                           Contains(Lower(stripped[h]), header_keywords[k])})
        headed(stripped) ==
            under(stripped,
                  {i \in 1..Len(stripped) :
                      stripped[i] # "" /\ _looks_like_heading(stripped[i])})
        of(lines) == headed(Tabulated([i \in 1..Len(lines) |-> Strip(lines[i])]))
    IN  of(splitlines(SplitLines(text)))

\* A section is a heading line and the stripped lines up to the next
\* heading, with one empty line kept for each gap after a non-empty line;
\* it is recorded when it has a line, and returned when its heading holds
\* one of the header keywords.
_extract_section_blocks(text, header_keywords) ==
    LET \* text.splitlines()
        splitlines(parts) ==
            IF parts[Len(parts)] = ""
            THEN SubSeq(parts, 1, Len(parts) - 1) ELSE parts
        first(later, none) ==
            IF later = {} THEN none
            ELSE CHOOSE i \in later : \A j \in later : i <= j
        gathered(stripped, h, next) ==
            AtIndices(stripped,
                {i \in (h + 1)..(next - 1) :
                    \/ stripped[i] # ""
                    \/ i - 1 > h /\ stripped[i - 1] # ""})
        current_lines(stripped, heads, h) ==
            gathered(stripped, h,
                     first({i \in heads : i > h}, Len(stripped) + 1))
        RECURSIVE joined(_)
        \* "\n".join(q)
        joined(q) == IF Len(q) = 0 THEN ""
                     ELSE IF Len(q) = 1 THEN q[1]
                     ELSE q[1] \o "\n" \o joined(Tail(q))
        sections(stripped, heads, matched) ==
            AtIndices(Tabulated([i \in 1..Len(stripped) |->
                          IF i \in matched
                          THEN Strip(joined(current_lines(stripped, heads, i)))
                          ELSE ""]),
                      matched)
        under(stripped, heads) ==
            sections(stripped, heads,
                {h \in heads :
                    /\ current_lines(stripped, heads, h) # << >>
                    /\ \E k \in 1..Len(header_keywords) :
                           Contains(Lower(stripped[h]), header_keywords[k])})
        headed(stripped) ==
            under(stripped,
                  {i \in 1..Len(stripped) :
                      stripped[i] # "" /\ _looks_like_heading(stripped[i])})
        of(lines) == headed(Tabulated([i \in 1..Len(lines) |-> Strip(lines[i])]))
    IN  of(splitlines(SplitLines(text)))

\* The entries of a section block: lines are gathered into the current
\* entry; an empty line, or a line that starts a new entry, commits it.
_split_block_entries(block) ==
    LET \* block.splitlines()
        splitlines(parts) ==
            IF parts[Len(parts)] = ""
            THEN SubSeq(parts, 1, Len(parts) - 1) ELSE parts
        RECURSIVE blanked(_)
        \* re.sub(r'[^a-z0-9 ]', ' ', s)
        blanked(s) ==
            IF Len(s) = 0 THEN ""
            ELSE IF Len(s) = 1
            THEN (IF s \in LowerChars \cup DigitChars \cup {" "} THEN s ELSE " ")
            ELSE LET h == Len(s) \div 2
                 IN  blanked(SubSeq(s, 1, h)) \o blanked(SubSeq(s, h + 1, Len(s)))
        noise(normalized) == normalized \in NOISE_PREFIXES \/ normalized = ""
        _is_noise_line(line) == noise(Strip(blanked(Lower(line))))
        _is_noise_entry(entry_lower) ==
            \/ Len(entry_lower) < 10
            \/ \E prefix \in NOISE_PREFIXES :
                   /\ Len(prefix) <= Len(entry_lower)
                   /\ SubSeq(entry_lower, 1, Len(prefix)) = prefix
        _starts_new_entry(line) ==
            IF \/ line = ""
               \/ /\ Len(line) >= 2
                  /\ CharAt(line, 1) \in {"-", "*"}
                  /\ CharAt(line, 2) \in SpaceChars
            THEN FALSE
            ELSE \/ Contains(line, "|")
                 \/ /\ \E i \in 1..Len(line) : CharAt(line, i) \in UpperChars
                    /\ \A i \in 1..Len(line) : CharAt(line, i) \notin LowerChars
                 \/ ContainsAny(Lower(line),
                       {"project", "capstone", "hackathon", "award",
                        "achievement", "leadership", "club", "society",
                        "competition"})
                 \/ Search(line, <<WordBoundary, Lit("2"), Lit("0"),
                                   Repeat(DigitChars, 2, 2), WordBoundary>>)
        added(entries, cleaned_entry) ==
            IF Len(Split(cleaned_entry)) >= 6
            THEN Append(entries, cleaned_entry) ELSE entries
        merged_into(entries, merged) ==
            IF _is_noise_entry(Lower(merged)) THEN entries
            ELSE added(entries, _clean_entry_text(merged))
        commit_entry(entries, current) ==
            IF current = << >> THEN entries
            ELSE merged_into(entries, Join(current))
        short_descriptor(cleaned_line) ==
            /\ Len(Split(cleaned_line)) <= 4
            /\ ~Contains(cleaned_line, ":")
            /\ ~Contains(cleaned_line, "|")
        taken(st, stripped, cleaned_line) ==
            IF stripped = ""
            THEN [entries |-> commit_entry(st.entries, st.current),
                  current |-> << >>]
            ELSE IF _is_noise_line(stripped) \/ cleaned_line = "" THEN st
            ELSE IF short_descriptor(cleaned_line) /\ st.current # << >>
            THEN [st EXCEPT !.current = Append(@, cleaned_line)]
            ELSE IF st.current # << >> /\ _starts_new_entry(cleaned_line)
            THEN [entries |-> commit_entry(st.entries, st.current),
                  current |-> <<cleaned_line>>]
            ELSE [st EXCEPT !.current = Append(@, cleaned_line)]
        \* stripped.lstrip('-* ').strip()
        lstripped(st, stripped) ==
            taken(st, stripped,
                  Strip(SubSeq(stripped,
                               RunEnd(stripped, 1, {"-", "*", " "}) + 1,
                               Len(stripped))))
        step(st, line) == lstripped(st, Strip(line))
        RECURSIVE after(_, _)
        after(lines, k) ==
            IF k = 0 THEN [entries |-> << >>, current |-> << >>]
            ELSE step(after(lines, k - 1), lines[k])
        committed(last) == commit_entry(last.entries, last.current)
        of(lines) == committed(after(lines, Len(lines)))
    IN  of(splitlines(SplitLines(block)))

\* The technology names found in the text, in the iteration order of the
\* set TECH_TERMS: a name of word characters must stand as a whole word,
\* a name with another character need only occur.
_extract_tech_stack(text_lower, seed) ==
    LET hit(term) ==
            IF \A i \in 1..Len(term) : CharAt(term, i) \in WordChars
            THEN CountWord(text_lower, term) > 0
            ELSE Contains(text_lower, term)
        RECURSIVE upper(_)
        upper(s) == IF Len(s) = 0 THEN ""
                    ELSE (IF CharAt(s, 1) \in LowerChars
                          THEN UpperOf[CharAt(s, 1)] ELSE CharAt(s, 1))
                         \o upper(SubSeq(s, 2, Len(s)))
        shown(term) ==
            IF Len(term) <= 4 /\ \A i \in 1..Len(term) : CharAt(term, i) \in Letters
            THEN upper(term) ELSE Title(term)
        \* IterationOrder(TECH_TERMS, seed) is the sorted terms turned by
        \* seed places: the terms of rank seed and more come first.
        early(term) ==
            Cardinality({t \in TECH_TERMS : StrLess(t, term)})
                >= seed % Cardinality(TECH_TERMS)
        late(term) == ~early(term)
        turned(hits) == SelectSeq(hits, early) \o SelectSeq(hits, late)
        first(found) == Take(Tabulated([k \in 1..Len(found) |-> shown(found[k])]), 8)
    IN  first(turned(Sorted({term \in TECH_TERMS : hit(term)})))

\* re.split(r'(?<=[\.\!\?])\s+', normalized) of the text with its
\* whitespace collapsed; the parts longer than 25 characters are kept.
_split_sentences(text) ==
    LET break(normalized, breaks, k) ==
            IF k = 0 THEN 0
            ELSE IF k > Cardinality(breaks) THEN Len(normalized) + 1
            ELSE CHOOSE i \in breaks :
                     Cardinality({j \in breaks : j < i}) = k - 1
        long(part) == Len(part) > 25
        parts(normalized, breaks) ==
            SelectSeq(Tabulated([k \in 1..(Cardinality(breaks) + 1) |->
                          Strip(SubSeq(normalized,
                                       break(normalized, breaks, k - 1) + 1,
                                       break(normalized, breaks, k) - 1))]),
                      long)
        of(normalized) ==
            parts(normalized,
                  {i \in 2..Len(normalized) :
                      /\ CharAt(normalized, i) = " "
                      /\ CharAt(normalized, i - 1) \in {".", "!", "?"}})
    IN  of(Join(Split(text)))

\* re.search(r'\b\d+(\.\d+)?%|\$\d+|\d+\+\b', entry)
MetricsPresent(entry) ==
    \/ Search(entry, <<WordBoundary, OneOrMore(DigitChars), Lit("%")>>)
    \/ Search(entry, <<WordBoundary, OneOrMore(DigitChars), Lit("."),
                       OneOrMore(DigitChars), Lit("%")>>)
    \/ Search(entry, <<Lit("$"), Repeat(DigitChars, 1, 1)>>)
    \/ Search(entry, <<OneOrMore(DigitChars), Lit("+"), WordBoundary>>)

\* The confidence of a project of a section block, the cap at 0.99 left out
BlockConfidence_Uncapped(tech_stack, metrics_present, entry) ==
    LET length_factor == RMin(Rat(Len(entry), 300), RInt(1))
        confidence ==
            RAdd(RAdd(RAdd(Rat(2, 5),
                           IF tech_stack # << >> THEN Rat(1, 5) ELSE RInt(0)),
                      IF metrics_present THEN Rat(1, 5) ELSE RInt(0)),
                 RDivInt(length_factor, 5))
    IN  Round2(confidence)

\* The confidence of a project of a section block
BlockConfidence(tech_stack, metrics_present, entry) ==
    LET length_factor == RMin(Rat(Len(entry), 300), RInt(1))
        confidence ==
            RAdd(RAdd(RAdd(Rat(2, 5),
                           IF tech_stack # << >> THEN Rat(1, 5) ELSE RInt(0)),
                      IF metrics_present THEN Rat(1, 5) ELSE RInt(0)),
                 RDivInt(length_factor, 5))
    IN  Round2(RMin(confidence, Rat(99, 100)))

\* The confidence of a fallback project, as 0.4 + 0.3 * min(len / 300, 1)
FallbackConfidence_ScaledLength(cleaned_sentence) ==
    Round2(RAdd(Rat(2, 5),
                RDivInt(RScale(RMin(Rat(Len(cleaned_sentence), 300), RInt(1)), 3),
                        10)))

\* The confidence of a project of the sentence-level fallback
FallbackConfidence(cleaned_sentence) ==
    Round2(RMin(RInt(1),
                RAdd(Rat(2, 5),
                     RMin(Rat(Len(cleaned_sentence), 300), Rat(3, 10)))))

_extract_projects(resume_text, sentences, seed) ==
    LET PROJECT_KEYWORDS ==
            {"project", "projects", "capstone", "portfolio", "application",
             "app", "tool", "platform", "system", "product", "prototype",
             "solution", "hackathon", "case study", "research project",
             "module", "feature"}
        upto(s, hits) ==
            IF hits = {} THEN s
            ELSE SubSeq(s, 1, (CHOOSE i \in hits : \A j \in hits : i <= j) - 1)
        \* s.split(sep)[0]
        before(s, sep) ==
            upto(s, {i \in 1..(Len(s) - Len(sep) + 1) :
                        SubSeq(s, i, i + Len(sep) - 1) = sep})
        \* r'(?:project|application|platform|system)\s*[:\-]\s*([A-Za-z0-9 ,&()\/\-]+)'
        \* with re.IGNORECASE: the group is the run of title characters
        \* after the whitespace that follows the delimiter, or a space of
        \* that whitespace when no title character follows it.
        _infer_project_title(sentence) ==
            LET named(lower, p, kw) ==
                    /\ p + Len(kw) - 1 <= Len(sentence)
                    /\ SubSeq(lower, p, p + Len(kw) - 1) = kw
                \* the place after the whitespace that starts at i
                past(i) == RunEnd(sentence, i, SpaceChars) + 1
                delimited(d, g) ==
                    /\ d <= Len(sentence)
                    /\ CharAt(sentence, d) \in {":", "-"}
                    /\ \/ g <= Len(sentence)
                          /\ CharAt(sentence, g) \in TitleChars
                       \/ \E i \in (d + 1)..(g - 1) : CharAt(sentence, i) = " "
                from(d) == delimited(d, past(d + 1))
                group(g) ==
                    IF g <= Len(sentence) /\ CharAt(sentence, g) \in TitleChars
                    THEN SubSeq(sentence, g, RunEnd(sentence, g, TitleChars))
                    ELSE " "
                after(d) == group(past(d + 1))
                with(p, kw) == after(past(p + Len(kw)))
                at(lower, p) ==
                    with(p, CHOOSE k \in {"project", "application", "platform",
                                          "system"} : named(lower, p, k))
                titled(lower, starts) ==
                    IF starts # {}
                    THEN _trim_title(_clean_entry_text(Strip(
                             at(lower, CHOOSE i \in starts :
                                           \A j \in starts : i <= j))))
                    ELSE _trim_title(_clean_entry_text(
                             before(before(before(sentence, ","), " - "), ". ")))
                of(lower) ==
                    titled(lower,
                        {p \in 1..Len(sentence) :
                            \E kw \in {"project", "application", "platform",
                                       "system"} :
                                /\ named(lower, p, kw)
                                /\ from(past(p + Len(kw)))})
            IN  of(Lower(sentence))
        described(entry, tech_stack) ==
            [title |-> _infer_project_title(entry),
             summary |-> _clean_entry_text(Strip(entry)),
             tech_stack |-> tech_stack,
             confidence |->
                 BlockConfidence(tech_stack, MetricsPresent(entry), entry)]
        project_of(entry) ==
            described(entry, _extract_tech_stack(Lower(entry), seed))
        each(entries) ==
            Tabulated([k \in 1..Len(entries) |-> project_of(entries[k])])
        _parse_project_block(block) == each(_split_block_entries(block))
        RECURSIVE parsed(_, _)
        parsed(section_blocks, k) ==
            IF k = 0 THEN << >>
            ELSE parsed(section_blocks, k - 1)
                     \o _parse_project_block(section_blocks[k])
        all(section_blocks) == parsed(section_blocks, Len(section_blocks))
        \* the first entry of each title
        unseen(q) == AtIndices(q, {i \in 1..Len(q) :
                        \A j \in 1..(i - 1) : Lower(q[j].title) # Lower(q[i].title)})
        summarized(sentence, cleaned_sentence) ==
            [title |-> _infer_project_title(sentence),
             summary |-> cleaned_sentence,
             tech_stack |-> _extract_tech_stack(Lower(sentence), seed),
             confidence |-> FallbackConfidence(cleaned_sentence)]
        fallback_of(sentence) ==
            summarized(sentence, _clean_entry_text(Strip(sentence)))
        eligible(sentence) ==
            /\ ContainsAny(Lower(sentence), PROJECT_KEYWORDS)
            /\ \/ Contains(sentence, "|")
               \/ Contains(sentence, " - ")
               \/ Contains(sentence, ":")
            /\ _extract_tech_stack(Lower(sentence), seed) # << >>
            /\ Len(Split(_clean_entry_text(Strip(sentence)))) >= 6
        fallbacks(candidates) ==
            Tabulated([k \in 1..Len(candidates) |-> fallback_of(candidates[k])])
        \* the sentence-level fallback runs 'if not projects'
        filled(projects) ==
            IF projects # << >> THEN projects
            ELSE unseen(fallbacks(SelectSeq(sentences, eligible)))
        placed(projects, place) ==
            Tabulated([k \in 1..Len(projects) |->
                projects[CHOOSE i \in 1..Len(projects) : place[i] = k]])
        \* projects.sort(key=confidence, reverse=True), a stable sort
        sorted(projects) ==
            placed(projects,
                Tabulated([i \in 1..Len(projects) |->
                    Cardinality({j \in 1..Len(projects) :
                        \/ RLt(projects[i].confidence, projects[j].confidence)
                        \/ /\ j <= i
                           /\ projects[j].confidence = projects[i].confidence})]))
    IN  sorted(filled(unseen(all(
            _extract_section_blocks(resume_text, PROJECT_SECTION_HEADERS)))))

_extract_achievements(resume_text, sentences) ==
    LET ACHIEVEMENT_KEYWORDS ==
            {"award", "awarded", "honor", "honours", "recognition", "recognized",
             "certification", "certified", "achievement", "achievements",
             "winner", "won", "finalist", "runner-up", "placed", "scholarship",
             "publication", "published", "speaker", "presented", "selected"}
        CO_CURRICULAR_KEYWORDS ==
            {"club", "society", "association", "organization", "organised",
             "organized", "volunteer", "volunteered", "leadership", "captain",
             "coach", "mentor", "event", "festival", "competition", "contest",
             "sports", "athletics", "cultural", "music", "dance", "drama",
             "community", "campus", "co-curricular", "extracurricular"}
        impact_terms ==
            <<"led", "organized", "increased", "reduced", "boosted",
              "improved", "mentored", "trained", "volunteered",
              "collaborated", "presented", "coordinated", "hosted">>
        _extract_impact_keywords(text_lower) ==
            LET hit(term) == Contains(text_lower, term)
            IN  Take(SelectSeq(impact_terms, hit), 5)
        upto(s, hits) ==
            IF hits = {} THEN s
            ELSE SubSeq(s, 1, (CHOOSE i \in hits : \A j \in hits : i <= j) - 1)
        \* s.split(sep)[0]
        before(s, sep) ==
            upto(s, {i \in 1..(Len(s) - Len(sep) + 1) :
                        SubSeq(s, i, i + Len(sep) - 1) = sep})
        \* r'(?:awarded|won|received|recognized for)\s+([A-Za-z0-9 ,&()\/\-]+)'
        \* with re.IGNORECASE
        _infer_achievement_title(sentence) ==
            LET verbs == {"awarded", "won", "received", "recognized for"}
                named(lower, p, kw) ==
                    /\ p + Len(kw) - 1 <= Len(sentence)
                    /\ SubSeq(lower, p, p + Len(kw) - 1) = kw
                \* the place after the whitespace that starts at i
                past(i) == RunEnd(sentence, i, SpaceChars) + 1
                spaced(w, g) ==
                    /\ g > w
                    /\ \/ g <= Len(sentence)
                          /\ CharAt(sentence, g) \in TitleChars
                       \/ \E i \in (w + 1)..(g - 1) : CharAt(sentence, i) = " "
                from(w) == spaced(w, past(w))
                group(g) ==
                    IF g <= Len(sentence) /\ CharAt(sentence, g) \in TitleChars
                    THEN SubSeq(sentence, g, RunEnd(sentence, g, TitleChars))
                    ELSE " "
                with(p, kw) == group(past(p + Len(kw)))
                at(lower, p) ==
                    with(p, CHOOSE k \in verbs : named(lower, p, k))
                titled(lower, starts) ==
                    IF starts # {}
                    THEN _trim_title(_clean_entry_text(
                             at(lower, CHOOSE i \in starts :
                                           \A j \in starts : i <= j)))
                    ELSE _trim_title(_clean_entry_text(before(sentence, ". ")))
                of(lower) ==
                    titled(lower,
                        {p \in 1..Len(sentence) :
                            \E kw \in verbs :
                                named(lower, p, kw) /\ from(p + Len(kw))})
            IN  of(Lower(sentence))
        item_of(entry) ==
            [title |-> _infer_achievement_title(entry),
             details |-> _clean_entry_text(Strip(entry)),
             category |-> IF ContainsAny(Lower(entry), CO_CURRICULAR_KEYWORDS)
                          THEN "Co-curricular" ELSE "Achievement",
             impact_keywords |-> _extract_impact_keywords(Lower(entry))]
        each(entries) ==
            Tabulated([k \in 1..Len(entries) |-> item_of(entries[k])])
        _parse_achievement_block(block) == each(_split_block_entries(block))
        RECURSIVE parsed(_, _)
        parsed(section_blocks, k) ==
            IF k = 0 THEN << >>
            ELSE parsed(section_blocks, k - 1)
                     \o _parse_achievement_block(section_blocks[k])
        all(section_blocks) == parsed(section_blocks, Len(section_blocks))
        unseen(q) == AtIndices(q, {i \in 1..Len(q) :
                        \A j \in 1..(i - 1) : Lower(q[j].title) # Lower(q[i].title)})
        eligible(sentence) ==
            \/ ContainsAny(Lower(sentence), ACHIEVEMENT_KEYWORDS)
            \/ ContainsAny(Lower(sentence), CO_CURRICULAR_KEYWORDS)
        fallbacks(candidates) ==
            Tabulated([k \in 1..Len(candidates) |-> item_of(candidates[k])])
        \* the sentence-level fallback runs 'if not achievements'
        filled(achievements) ==
            IF achievements # << >> THEN achievements
            ELSE unseen(fallbacks(SelectSeq(sentences, eligible)))
        co_curricular(item) == item.category = "Co-curricular"
        other(item) == item.category # "Co-curricular"
        \* achievements.sort(key=...): Co-curricular first, a stable sort
        sorted(achievements) ==
            SelectSeq(achievements, co_curricular) \o SelectSeq(achievements, other)
    IN  sorted(filled(unseen(all(
            _extract_section_blocks(resume_text, ACHIEVEMENT_SECTION_HEADERS)))))

MaxInsightLines == 3

InsightVocabulary ==
    {"Projects:", "Awards", "Tiny app",
     "Built an inventory application: a Python and Flask service with a React dashboard that cut the monthly stock reporting time by 35% for the warehouse staff.",
     "Won the regional robotics contest and led the campus club to the finals.",
     "Payroll system - built with Java and SQL for staff."}

MaxInsightEntries == 6

\* A resume of at most MaxInsightLines lines, or a resume with a project
\* section and an awards section of at most MaxInsightEntries entries each,
\* the entries one line long and an empty line apart
InsightsInit ==
    /\ pc = "ready"
    /\ args \in [resume_text :
                    LET RECURSIVE joined(_)
                        joined(q) == IF Len(q) = 0 THEN ""
                                     ELSE IF Len(q) = 1 THEN q[1]
                                     ELSE q[1] \o "\n" \o joined(Tail(q))
                        digit(i) == SubSeq("123456789", i, i)
                        project(i) ==
                            "Tracker N" \o digit(i)
                            \o (IF i % 2 = 0 THEN " - built with Python for "
                                ELSE " - built by hand for ")
                            \o (IF i % 3 = 0 THEN "35% of the staff."
                                ELSE "most of the staff.")
                        award(i) ==
                            IF i % 2 = 0
                            THEN "Won the N" \o digit(i)
                                 \o " robotics contest for the campus club."
                            ELSE "Received the N" \o digit(i)
                                 \o " merit scholarship for the best grades."
                        RECURSIVE apart(_, _)
                        apart(entry(_), n) ==
                            IF n = 0 THEN << >>
                            ELSE IF n = 1 THEN <<entry(1)>>
                            ELSE apart(entry, n - 1) \o <<"", entry(n)>>
                    IN  UNION {{joined(lines) :
                                   lines \in [1..k -> InsightVocabulary]} :
                               k \in 0..MaxInsightLines}
                        \cup {joined(<<"Projects:">> \o apart(project, k)
                                     \o <<"Awards">> \o apart(award, m)) :
                                 k \in 0..MaxInsightEntries,
                                 m \in 0..MaxInsightEntries}]
    /\ ret = None
    /\ artifact = None
    /\ model = None
    /\ feature_names = <<>>
    /\ feature_array = <<>>
    /\ hash_seed = 0

\* ResumeInsights.extract_insights(resume_text)
ExtractInsights ==
    /\ pc = "ready"
    /\ \E sentences \in {_split_sentences(args.resume_text)} :
           ret' = [projects |->
                       Take(_extract_projects(args.resume_text, sentences,
                                              hash_seed), 5),
                   achievements |->
                       Take(_extract_achievements(args.resume_text, sentences), 5)]
    /\ pc' = "done"
    /\ UNCHANGED <<args, artifact, model, feature_names, feature_array, hash_seed>>

SpecInsights == InsightsInit /\ [][ExtractInsights]_vars

-----------------------------------------------------------------------------
(* Properties of extract_insights                                          *)

\* The entries of the headed blocks whose heading holds a header keyword
BlockEntries(text, header_keywords) ==
    LET blocks == _extract_section_blocks(text, header_keywords)
    IN  UNION {Range(_split_block_entries(blocks[k])) : k \in 1..Len(blocks)}

HasBlock(text, header_keywords) ==
    _extract_section_blocks(text, header_keywords) # << >>

\* C18: when the text has a headed block under a project (achievement)
\* heading, every returned project (achievement) is an entry of such a
\* block, none comes from the sentence-level fallback.
C18_Original ==
    pc = "done" =>
        /\ HasBlock(args.resume_text, PROJECT_SECTION_HEADERS) =>
               \A i \in 1..Len(ret.projects) :
                   ret.projects[i].summary \in
                       BlockEntries(args.resume_text, PROJECT_SECTION_HEADERS)
        /\ HasBlock(args.resume_text, ACHIEVEMENT_SECTION_HEADERS) =>
               \A i \in 1..Len(ret.achievements) :
                   ret.achievements[i].details \in
                       BlockEntries(args.resume_text, ACHIEVEMENT_SECTION_HEADERS)

\* C19 as stated: a fallback project has confidence
\* 0.4 + 0.3 * min(len / 300, 1), len the length of the cleaned sentence,
\* so 0.7 is reached only at 300 characters.
C19_Original ==
    pc = "done" /\ BlockEntries(args.resume_text, PROJECT_SECTION_HEADERS) = {} =>
        \A i \in 1..Len(ret.projects) :
            LET len == Len(ret.projects[i].summary)
            IN  /\ ret.projects[i].confidence =
                       RAdd(Rat(2, 5),
                            RDivInt(RScale(RMin(Rat(len, 300), RInt(1)), 3), 10))
                /\ ret.projects[i].confidence = Rat(7, 10) => len >= 300

\* C19, amended: a fallback project has confidence 0.4 + min(len / 300, 0.3)
\* rounded to two decimals, len the length of the cleaned sentence; the
\* confidence never exceeds 0.7 and is 0.7 from 90 characters on.
C19_FallbackConfidence ==
    pc = "done" /\ BlockEntries(args.resume_text, PROJECT_SECTION_HEADERS) = {} =>
        \A i \in 1..Len(ret.projects) :
            LET len == Len(ret.projects[i].summary)
                confidence == ret.projects[i].confidence
            IN  /\ confidence =
                       Round2(RAdd(Rat(2, 5), RMin(Rat(len, 300), Rat(3, 10))))
                /\ RLeq(confidence, Rat(7, 10))
                /\ len >= 90 => confidence = Rat(7, 10)

\* The fallback returned a sentence under 90 characters and one of 90 or more.
C19_Witness ==
    /\ pc = "done"
    /\ BlockEntries(args.resume_text, PROJECT_SECTION_HEADERS) = {}
    /\ \E i, j \in 1..Len(ret.projects) :
           /\ Len(ret.projects[i].summary) >= 90
           /\ Len(ret.projects[i].summary) < 300
           /\ Len(ret.projects[j].summary) < 90

\* min(0.99, 0.4 + 0.2 for a technology + 0.2 for a metric
\*                 + 0.2 * min(len / 300, 1))
ClaimedBlockConfidence(project) ==
    RMin(Rat(99, 100),
         RAdd(RAdd(RAdd(Rat(2, 5),
                        IF project.tech_stack # << >> THEN Rat(1, 5) ELSE RInt(0)),
                   IF MetricsPresent(project.summary) THEN Rat(1, 5) ELSE RInt(0)),
              RDivInt(RMin(Rat(Len(project.summary), 300), RInt(1)), 5)))

\* C20 as stated: a project of a section block has the confidence
\* ClaimedBlockConfidence, which lies in [0.4, 0.99]; every project
\* confidence lies in [0, 1].
C20_Original ==
    pc = "done" =>
        \A i \in 1..Len(ret.projects) :
            /\ BlockEntries(args.resume_text, PROJECT_SECTION_HEADERS) # {} =>
                   /\ ret.projects[i].confidence =
                          ClaimedBlockConfidence(ret.projects[i])
                   /\ RLeq(Rat(2, 5), ret.projects[i].confidence)
                   /\ RLeq(ret.projects[i].confidence, Rat(99, 100))
            /\ RLeq(RInt(0), ret.projects[i].confidence)
            /\ RLeq(ret.projects[i].confidence, RInt(1))

\* C20, amended: a project of a section block has the confidence
\* ClaimedBlockConfidence rounded to two decimals, which lies in
\* [0.4, 0.99]; every project confidence lies in [0, 1].
C20_RoundedBlockConfidence ==
    pc = "done" =>
        \A i \in 1..Len(ret.projects) :
            /\ BlockEntries(args.resume_text, PROJECT_SECTION_HEADERS) # {} =>
                   /\ ret.projects[i].confidence =
                          Round2(ClaimedBlockConfidence(ret.projects[i]))
                   /\ RLeq(Rat(2, 5), ret.projects[i].confidence)
                   /\ RLeq(ret.projects[i].confidence, Rat(99, 100))
            /\ RLeq(RInt(0), ret.projects[i].confidence)
            /\ RLeq(ret.projects[i].confidence, RInt(1))

\* A block entry with a technology, a metric and 300 characters or more:
\* the cap at 0.99 applies.
C20_Witness ==
    /\ pc = "done"
    /\ BlockEntries(args.resume_text, PROJECT_SECTION_HEADERS) # {}
    /\ \E i \in 1..Len(ret.projects) :
           /\ ret.projects[i].tech_stack # << >>
           /\ MetricsPresent(ret.projects[i].summary)
           /\ Len(ret.projects[i].summary) >= 300
           /\ ret.projects[i].confidence = Rat(99, 100)

\* A block entry with no technology and no metric
C20_WitnessPlain ==
    /\ pc = "done"
    /\ BlockEntries(args.resume_text, PROJECT_SECTION_HEADERS) # {}
    /\ \E i \in 1..Len(ret.projects) :
           /\ ret.projects[i].tech_stack = << >>
           /\ ~MetricsPresent(ret.projects[i].summary)

\* C21: extract_insights returns at most 5 projects and at most 5
\* achievements; the returned projects are in non-increasing order of
\* confidence and are the candidates of highest confidence, and the returned
\* achievements have every Co-curricular entry before any Achievement entry.
C21_TopFive ==
    pc = "done" =>
        \E sentences \in {_split_sentences(args.resume_text)} :
        \E candidates \in {Range(_extract_projects(args.resume_text, sentences,
                                                   hash_seed))} :
        \E found \in {Range(_extract_achievements(args.resume_text, sentences))} :
            /\ Len(ret.projects) <= 5
            /\ Len(ret.achievements) <= 5
            /\ \A i, j \in 1..Len(ret.projects) :
                   i < j => RLeq(ret.projects[j].confidence,
                                 ret.projects[i].confidence)
            /\ Range(ret.projects) \subseteq candidates
            /\ Cardinality(Range(ret.projects)) = Min(5, Cardinality(candidates))
            /\ \A left \in candidates \ Range(ret.projects) :
                   \A k \in 1..Len(ret.projects) :
                       RLeq(left.confidence, ret.projects[k].confidence)
            /\ Range(ret.achievements) \subseteq found
            /\ Cardinality(Range(ret.achievements)) = Min(5, Cardinality(found))
            /\ \A i, j \in 1..Len(ret.achievements) :
                   i < j => ~(/\ ret.achievements[i].category = "Achievement"
                              /\ ret.achievements[j].category = "Co-curricular")

\* More than five candidates of both kinds: five projects of three
\* confidences are returned, the project left out is of the lowest, and the
\* achievements of both categories are returned
C21_Witness ==
    /\ pc = "done"
    /\ \E sentences \in {_split_sentences(args.resume_text)} :
           /\ Len(_extract_projects(args.resume_text, sentences, hash_seed)) > 5
           /\ Len(_extract_achievements(args.resume_text, sentences)) > 5
    /\ Len(ret.projects) = 5
    /\ Len(ret.achievements) = 5
    /\ Cardinality({ret.projects[k].confidence : k \in 1..5}) >= 3
    /\ ret.projects[1].confidence # ret.projects[5].confidence
    /\ ret.achievements[1].category = "Co-curricular"
    /\ ret.achievements[5].category = "Achievement"

\* C26: _extract_section_blocks works through the lines in order as a state
\* machine: a non-blank line that is no heading joins the block of the most
\* recent heading before it, the lines before the first heading join no
\* block, the next heading or the end of the text closes a block, a heading
\* with no content line gives no block, and the blocks whose heading holds
\* one of the requested keywords are returned in document order.
C26_SectionStateMachine ==
    pc = "done" =>
        \A header_keywords \in
               {PROJECT_SECTION_HEADERS, ACHIEVEMENT_SECTION_HEADERS,
                PROJECT_SECTION_HEADERS \o ACHIEVEMENT_SECTION_HEADERS} :
            LET closed(st) ==
                    IF st.heading # << >> /\ st.lines # << >>
                    THEN Append(st.blocks, [heading |-> st.heading[1],
                                            lines |-> st.lines])
                    ELSE st.blocks
                step(st, line) ==
                    IF line = "" THEN st
                    ELSE IF _looks_like_heading(line)
                    THEN [heading |-> <<line>>, lines |-> << >>,
                          blocks |-> closed(st)]
                    ELSE IF st.heading = << >> THEN st
                    ELSE [st EXCEPT !.lines = Append(@, line)]
                RECURSIVE after(_, _)
                after(lines, k) ==
                    IF k = 0
                    THEN [heading |-> << >>, lines |-> << >>, blocks |-> << >>]
                    ELSE step(after(lines, k - 1), Strip(lines[k]))
                requested(blocks) ==
                    SelectSeq(blocks,
                        LAMBDA b : \E k \in 1..Len(header_keywords) :
                                       Contains(Lower(b.heading),
                                                header_keywords[k]))
                same(returned, expected) ==
                    /\ Len(returned) = Len(expected)
                    /\ \A k \in 1..Len(returned) :
                           SelectSeq(SplitLines(returned[k]),
                                     LAMBDA l : l # "") = expected[k].lines
                machine(lines) == requested(closed(after(lines, Len(lines))))
            IN  same(_extract_section_blocks(args.resume_text, header_keywords),
                     machine(SplitLines(args.resume_text)))

\* A project section of two entries or more closed by the heading of an
\* awards section of two entries or more, which the end of the text closes
C26_Witness ==
    /\ pc = "done"
    /\ \E blocks \in {_extract_section_blocks(args.resume_text,
                          PROJECT_SECTION_HEADERS \o ACHIEVEMENT_SECTION_HEADERS)} :
           /\ Len(blocks) = 2
           /\ blocks[1] # blocks[2]
           /\ \A k \in 1..2 :
                  Len(SelectSeq(SplitLines(blocks[k]), LAMBDA l : l # "")) >= 2
           /\ <<blocks[1]>> = _extract_section_blocks(args.resume_text,
                                                      PROJECT_SECTION_HEADERS)
           /\ <<blocks[2]>> = _extract_section_blocks(args.resume_text,
                                                      ACHIEVEMENT_SECTION_HEADERS)
    /\ Len(ret.projects) >= 2
    /\ Len(ret.achievements) >= 2

-----------------------------------------------------------------------------
(* ResumeScorer: construction, score_resume, and the training rows of      *)
(* train_model.generate_training_data                                      *)

\* A call of a predictor method: it raises, or returns an array whose
\* first row (predict_proba) or whose entries (predict) are `returns`.
Raises == [raises |-> TRUE, returns |-> <<>>]

\* None, in the shape of an unpickled object.
NoModel ==
    [kind |-> "None", has_predict_proba |-> FALSE, has_predict |-> FALSE,
     predict_proba |-> Raises, predict |-> Raises]

\* What may lie at the model path: nothing, a file pickle.load fails on, or
\* the pickle of an object with its methods.
Artifacts ==
    LET Returns(row) == [raises |-> FALSE, returns |-> row]
        ProbaRows == {<<>>, <<Rat(2, 5)>>, <<Rat(3, 10), Rat(7, 10)>>,
                      <<Rat(-1, 2), Rat(3, 2)>>}
        PredictRows == {<<>>, <<RInt(-20)>>, <<Rat(166, 3)>>, <<RInt(140)>>}
    IN
    {[NoModel EXCEPT !.kind = k] : k \in {"missing", "corrupt"}}
    \cup {[NoModel EXCEPT !.kind = "object"]}
    \cup {[NoModel EXCEPT !.kind = "object", !.has_predict = TRUE, !.predict = b] :
             b \in {Raises} \cup {Returns(row) : row \in PredictRows}}
    \cup {[NoModel EXCEPT !.kind = "object", !.has_predict = TRUE,
                          !.has_predict_proba = TRUE, !.predict_proba = b] :
             b \in {Raises} \cup {Returns(row) : row \in ProbaRows}}

\* self.model after _load_model: the object if the file exists and loads.
_load_model(art) == IF art.kind = "object" THEN art ELSE NoModel

\* [features[name] for name in names]
FeatureValues(features, names) == [i \in 1..Len(names) |-> features[names[i]]]

\* The lookup of a name that is no key raises KeyError.
KeyErrorIn(features, names) == \E i \in 1..Len(names) : names[i] \notin DOMAIN features

\* PredictedScore with the except branch scoring 0.0.
PredictedScore_ZeroOnError(self_model, features) ==
    IF self_model.kind # "None"
    THEN IF self_model.has_predict_proba
         THEN LET proba == self_model.predict_proba.returns
              IN  IF self_model.predict_proba.raises \/ Len(proba) = 0
                  THEN RInt(0)
                  ELSE IF Len(proba) > 1 THEN RScale(proba[2], 100)
                  ELSE RScale(proba[1], 100)
         ELSE IF self_model.has_predict
         THEN LET predicted == self_model.predict.returns
              IN  IF self_model.predict.raises \/ Len(predicted) = 0
                  THEN RInt(0)
                  ELSE RMax(RInt(0), RMin(RInt(100), predicted[1]))
         ELSE _rule_based_score(features)
    ELSE _rule_based_score(features)

\* The score before rounding: an exception of the predictor call, or of the
\* indexing of an empty result, is caught and the rule formula used.
PredictedScore(self_model, features) ==
    IF self_model.kind # "None"
    THEN IF self_model.has_predict_proba
         THEN LET proba == self_model.predict_proba.returns
              IN  IF self_model.predict_proba.raises \/ Len(proba) = 0
                  THEN _rule_based_score(features)
                  ELSE IF Len(proba) > 1 THEN RScale(proba[2], 100)
                  ELSE RScale(proba[1], 100)
         ELSE IF self_model.has_predict
         THEN LET predicted == self_model.predict.returns
              IN  IF self_model.predict.raises \/ Len(predicted) = 0
                  THEN _rule_based_score(features)
                  ELSE RMax(RInt(0), RMin(RInt(100), predicted[1]))
         ELSE _rule_based_score(features)
    ELSE _rule_based_score(features)

\* What score_resume gives for the extracted features: the result, or the
\* KeyError of the feature lookup.
ScoreResult(self_model, self_feature_names, features) ==
    IF KeyErrorIn(features, self_feature_names)
    THEN [raised |-> TRUE]
    ELSE [raised |-> FALSE,
          quality_score |-> Round2(PredictedScore(self_model, features)),
          features |-> features,
          model_used |-> IF self_model.kind # "None" THEN "ml_model" ELSE "rule_based"]

MaxResumeWords == 2

ResumeVocabulary == {"Education", "a@b.co", "555-123-4567", "developed"}

MaxJdWords == 1

JdVocabulary == {"Education", "Python"}

ScorerInit ==
    /\ pc = "new"
    /\ args \in [resume_text : TextsOver(ResumeVocabulary, MaxResumeWords),
                 jd_text : TextsOver(JdVocabulary, MaxJdWords)]
    /\ ret = None
    /\ artifact \in Artifacts
    /\ model = NoModel
    /\ feature_names = <<>>
    /\ feature_array = <<>>
    /\ hash_seed = 0

\* ResumeScorer.__init__
Construct ==
    /\ pc = "new"
    /\ feature_names' = get_feature_names
    /\ model' = _load_model(artifact)
    /\ pc' = "ready"
    /\ UNCHANGED <<args, ret, artifact, feature_array, hash_seed>>

\* ResumeScorer.score_resume
ScoreResume ==
    /\ pc = "ready"
    /\ \E features \in {extract_features(args.resume_text, args.jd_text)} :
          /\ ret' = ScoreResult(model, feature_names, features)
          /\ feature_array' = IF KeyErrorIn(features, feature_names) THEN feature_array
                              ELSE FeatureValues(features, feature_names)
    /\ pc' = "done"
    /\ UNCHANGED <<args, artifact, model, feature_names, hash_seed>>

\* One round of the loop of generate_training_data, on a resume without JD:
\* the row is appended, or the exception is caught and the resume skipped.
GenerateTrainingRow ==
    /\ pc = "new"
    /\ args.jd_text = ""
    /\ \E features \in {extract_features(args.resume_text, "")} :
          IF KeyErrorIn(features, get_feature_names)
          THEN pc' = "skipped" /\ UNCHANGED feature_array
          ELSE /\ pc' = "trained"
               /\ feature_array' = FeatureValues(features, get_feature_names)
    /\ UNCHANGED <<args, ret, artifact, model, feature_names, hash_seed>>

SpecScorer ==
    ScorerInit /\ [][Construct \/ ScoreResume \/ GenerateTrainingRow]_vars

-----------------------------------------------------------------------------
(* Properties of score_resume                                              *)

\* Loading failed: no file at the path, or pickle.load raised.
LoadFailed == artifact.kind \in {"missing", "corrupt"}

\* The method score_resume calls on the loaded object: predict_proba if the
\* object has it, else predict if it has it, else none.
CalledMethod ==
    IF artifact.kind # "object" THEN "none"
    ELSE IF artifact.has_predict_proba THEN "predict_proba"
    ELSE IF artifact.has_predict THEN "predict"
    ELSE "none"

\* Prediction failed: the loaded object has neither method, or the method
\* called raised, or its result was empty and indexing it raised.
PredictionFailed ==
    /\ artifact.kind = "object"
    /\ \/ CalledMethod = "none"
       \/ /\ CalledMethod = "predict_proba"
          /\ artifact.predict_proba.raises \/ artifact.predict_proba.returns = <<>>
       \/ /\ CalledMethod = "predict"
          /\ artifact.predict.raises \/ artifact.predict.returns = <<>>

\* The rule formula on the features of the call, rounded as score_resume
\* rounds its score.
RoundedRuleScore ==
    Round2(_rule_based_score(extract_features(args.resume_text, args.jd_text)))

\* C4: score_resume returns a result for every outcome of loading and of
\* prediction, and when loading or prediction failed the returned score is
\* the rule formula's value.
C4_FallbackNeverRaises ==
    pc = "done" =>
        /\ ret.raised = FALSE
        /\ (LoadFailed \/ PredictionFailed) => ret.quality_score = RoundedRuleScore

\* The predictor raised during prediction, and the call returned the rule
\* score of a resume with a section and a strong verb.
C4_Witness ==
    /\ pc = "done"
    /\ artifact.kind = "object"
    /\ CalledMethod = "predict"
    /\ artifact.predict.raises
    /\ args.resume_text = "Education developed"
    /\ ret.raised = FALSE
    /\ ret.quality_score = Rat(399, 10)

\* pickle.load raised, and the call returned the rule score.
C4_WitnessLoadException ==
    /\ pc = "done"
    /\ artifact.kind = "corrupt"
    /\ args.resume_text = "a@b.co 555-123-4567"
    /\ ret.raised = FALSE
    /\ ret.quality_score = RoundedRuleScore

\* C5 as stated: whenever the predictor is unavailable (artifact missing,
\* load failed, predictor incompatible, prediction raised) the result reports
\* model_used = "rule_based" with the rounded rule score, and "ml_model" is
\* reported only when the score came from the predictor.
C5_Original ==
    pc = "done" =>
        /\ (LoadFailed \/ PredictionFailed) =>
               /\ ret.model_used = "rule_based"
               /\ ret.quality_score = RoundedRuleScore
        /\ ret.model_used = "ml_model" => ~(LoadFailed \/ PredictionFailed)

\* C6 as stated: quality_score lies in [0, 100] on every path, whatever
\* number the predictor returns.
C6_Original ==
    pc = "done" =>
        /\ RLeq(RInt(0), ret.quality_score)
        /\ RLeq(ret.quality_score, RInt(100))

\* C10: extract_features returns exactly the 22 keys get_feature_names
\* lists; score_resume and the training loop both read them in that order,
\* so the lookup never raises and both build the same vector layout.
C10_FeatureOrder ==
    /\ Len(get_feature_names) = 22
    /\ Cardinality(Range(get_feature_names)) = 22
    /\ pc \in {"done", "trained", "skipped"} =>
           \A f \in {extract_features(args.resume_text, args.jd_text)} :
               /\ DOMAIN f = Range(get_feature_names)
               /\ pc # "skipped"
               /\ pc = "done" => ret.raised = FALSE /\ ret.features = f
               /\ Len(feature_array) = 22
               /\ \A i \in 1..22 : feature_array[i] = f[get_feature_names[i]]

\* A scoring call with a JD that shares a keyword with the resume: entry 19
\* of the vector is common_keywords and entry 1 is text_length.
C10_Witness ==
    /\ pc = "done"
    /\ args.resume_text = "Education a@b.co"
    /\ args.jd_text = "Education"
    /\ feature_array[19] = 1
    /\ feature_array[1] = 16
    /\ feature_array[20] = 1
    /\ feature_array[21] = 0

\* A training row of the same resume: the same layout.
C10_WitnessTraining ==
    /\ pc = "trained"
    /\ args.resume_text = "Education a@b.co"
    /\ feature_array[19] = 0
    /\ feature_array[1] = 16
    /\ feature_array[20] = 1
    /\ feature_array[21] = 0

\* C30: for the feature vector of a call, ats_score, power_verb_ratio,
\* keyword_density and jd_match_score lie in [0, 1] and the four section
\* flags in {0, 1}; each of the six components of the rule formula is at
\* most its weight (30, 20, 15, 15, 10, 10), and their sum lies in [0, 100],
\* so that the final clamp leaves it as it is.
C30_SumWithinRange ==
    (pc = "done" /\ ret.raised = FALSE) =>
        \E f \in {ret.features} :
            LET unit(x) == RLeq(RInt(0), x) /\ RLeq(x, RInt(1))
                within(x, weight) == RLeq(RInt(0), x) /\ RLeq(x, RInt(weight))
                flags == <<f.has_education, f.has_experience,
                           f.has_skills, f.has_contact>>
            IN  /\ unit(f.ats_score) /\ unit(f.power_verb_ratio)
                /\ unit(f.keyword_density) /\ unit(f.jd_match_score)
                /\ \A k \in 1..4 : flags[k] \in {0, 1}
                /\ within(RScale(f.ats_score, 30), 30)
                /\ within(Rat(20 * (flags[1] + flags[2] + flags[3] + flags[4]), 4), 20)
                /\ within(RScale(f.power_verb_ratio, 15), 15)
                /\ within(NumbersComponent(f.has_numbers, f.numbers_count), 15)
                /\ within(RScale(f.keyword_density, 10), 10)
                /\ within(RScale(f.jd_match_score, 10), 10)
                /\ within(ClaimedRuleSum(f, args.jd_text # ""), 100)
                /\ _rule_based_score(f) = ClaimedRuleSum(f, args.jd_text # "")

\* A call with a JD whose vector has five positive components:
\* 9.9 + 5 + 15 + 0 + 10 + 3 = 42.9.
C30_Witness ==
    /\ pc = "done"
    /\ ret.raised = FALSE
    /\ args.resume_text = "Education developed"
    /\ args.jd_text = "Education"
    /\ ret.features.keyword_density = RInt(1)
    /\ RLt(RInt(0), ret.features.jd_match_score)
    /\ RLt(RInt(0), ret.features.power_verb_ratio)
    /\ RLt(RInt(0), ret.features.ats_score)
    /\ _rule_based_score(ret.features) = Rat(429, 10)

-----------------------------------------------------------------------------
(* PDFParser._clean_text                                                   *)

\* Every run of whitespace becomes one space, every character that is no
\* word character, whitespace or one of . , ; : ! ? - ( ) becomes a space,
\* every run of line breaks becomes one line break, and the ends are
\* stripped.
_clean_text(text) ==
    LET RECURSIVE sub_runs(_, _, _)
        \* re.sub of the runs of characters of cls by repl
        sub_runs(s, cls, repl) ==
            IF Len(s) = 0 THEN ""
            ELSE IF CharAt(s, 1) \in cls
            THEN repl \o sub_runs(SubSeq(s, RunEnd(s, 1, cls) + 1, Len(s)),
                                  cls, repl)
            ELSE CharAt(s, 1) \o sub_runs(SubSeq(s, 2, Len(s)), cls, repl)
        kept == WordChars \cup SpaceChars
                \cup {".", ",", ";", ":", "!", "?", "-", "(", ")"}
        RECURSIVE sub_special(_)
        sub_special(s) ==
            IF Len(s) = 0 THEN ""
            ELSE (IF CharAt(s, 1) \in kept THEN CharAt(s, 1) ELSE " ")
                 \o sub_special(SubSeq(s, 2, Len(s)))
    IN  Strip(sub_runs(sub_special(sub_runs(text, SpaceChars, " ")),
                       {"\n"}, "\n"))

MaxCleanLen == 5

\* A text of at most MaxCleanLen characters: letters, a special character,
\* punctuation that is kept, spaces and line breaks
CleanInit ==
    /\ pc = "ready"
    /\ args \in [text :
                    LET RECURSIVE joined(_)
                        joined(q) == IF Len(q) = 0 THEN ""
                                     ELSE q[1] \o joined(Tail(q))
                    IN  UNION {{joined(chars) :
                                   chars \in [1..n -> {"a", "B", "@", ".", " ", "\n"}]} :
                               n \in 0..MaxCleanLen}]
    /\ ret = None
    /\ artifact = None
    /\ model = None
    /\ feature_names = <<>>
    /\ feature_array = <<>>
    /\ hash_seed = 0

\* PDFParser._clean_text(text)
CleanText ==
    /\ pc = "ready"
    /\ ret' = _clean_text(args.text)
    /\ pc' = "done"
    /\ UNCHANGED <<args, artifact, model, feature_names, feature_array, hash_seed>>

SpecClean == CleanInit /\ [][CleanText]_vars

\* C22: _clean_text returns text with normalized whitespace: the result has
\* no run of three or more spaces and no two consecutive line breaks, and
\* the words of the input are kept.
C22_Original ==
    pc = "done" =>
        /\ ~Contains(ret, "   ")
        /\ ~Contains(ret, "\n\n")
        /\ WordRuns(ret) = WordRuns(args.text)

-----------------------------------------------------------------------------
(* The /analyze handler of api/routes.py.  A value that may be absent or   *)
(* null is a sequence: << >> when absent, <<v>> when it is v.              *)

\* The same with only an absent form text rejected, not an empty one.
ResumeTextOf_Unchecked(request) ==
    LET \* filename.rsplit('.', 1)[1].lower() in Config.ALLOWED_EXTENSIONS
        allowed_file(filename) ==
            /\ Contains(filename, ".")
            /\ \E i \in 1..Len(filename) :
                   /\ CharAt(filename, i) = "."
                   /\ ~Contains(SubSeq(filename, i + 1, Len(filename)), ".")
                   /\ Lower(SubSeq(filename, i + 1, Len(filename))) \in {"pdf"}
        read(file) == file # << >> /\ file[1].filename # ""
                      /\ allowed_file(file[1].filename)
        rejected(error) == [rejected |-> TRUE, error |-> error]
        given(resume_text) ==
            IF resume_text = << >>
            THEN rejected("No resume provided. Please upload a PDF file or provide resume text.")
            ELSE [rejected |-> FALSE, resume_text |-> resume_text[1]]
    IN  IF read(request.resume_file)
        THEN IF \/ request.resume_file[1].extracted = << >>
                \/ request.resume_file[1].extracted[1] = ""
             THEN rejected("Failed to extract text from PDF. Please ensure the PDF contains readable text.")
             ELSE given(request.resume_file[1].extracted)
        ELSE given(request.resume_text)

\* The resume text analyze_resume settles on, or the 400 response it
\* returns: the text extracted from an uploaded file with a name and an
\* allowed extension, else the resume_text of the form.
ResumeTextOf(request) ==
    LET \* filename.rsplit('.', 1)[1].lower() in Config.ALLOWED_EXTENSIONS
        allowed_file(filename) ==
            /\ Contains(filename, ".")
            /\ \E i \in 1..Len(filename) :
                   /\ CharAt(filename, i) = "."
                   /\ ~Contains(SubSeq(filename, i + 1, Len(filename)), ".")
                   /\ Lower(SubSeq(filename, i + 1, Len(filename))) \in {"pdf"}
        read(file) == file # << >> /\ file[1].filename # ""
                      /\ allowed_file(file[1].filename)
        rejected(error) == [rejected |-> TRUE, error |-> error]
        given(resume_text) ==
            IF resume_text = << >> \/ resume_text[1] = ""
            THEN rejected("No resume provided. Please upload a PDF file or provide resume text.")
            ELSE [rejected |-> FALSE, resume_text |-> resume_text[1]]
    IN  IF read(request.resume_file)
        THEN IF \/ request.resume_file[1].extracted = << >>
                \/ request.resume_file[1].extracted[1] = ""
             THEN rejected("Failed to extract text from PDF. Please ensure the PDF contains readable text.")
             ELSE given(request.resume_file[1].extracted)
        ELSE given(request.resume_text)

\* The storing block with no handler: the exception of a failed insert
\* leaves the block.
StoreAnalysis_Raising(results, jd_text, storage) ==
    IF \/ storage.fails_at \in {"insert_resume", "insert_analysis_result"}
       \/ storage.fails_at = "insert_job" /\ jd_text # ""
    THEN [raised |-> TRUE, results |-> results]
    ELSE [raised |-> FALSE,
          results |-> [analysis_id |-> <<storage.lastrowid>>,
                       resume_id |-> <<storage.lastrowid>>,
                       job_id |-> IF jd_text # "" THEN <<storage.lastrowid>>
                                  ELSE << >>] @@ results]

\* The results after the storing block of analyze_resume: the three ids
\* when every insert went through, analysis_id null when one raised.
StoreAnalysis(results, jd_text, storage) ==
    IF \/ storage.fails_at \in {"insert_resume", "insert_analysis_result"}
       \/ storage.fails_at = "insert_job" /\ jd_text # ""
    THEN [raised |-> FALSE,
          results |-> [analysis_id |-> << >>] @@ results]
    ELSE [raised |-> FALSE,
          results |-> [analysis_id |-> <<storage.lastrowid>>,
                       resume_id |-> <<storage.lastrowid>>,
                       job_id |-> IF jd_text # "" THEN <<storage.lastrowid>>
                                  ELSE << >>] @@ results]

\* analyze_resume: the status and body of the response, and the engine
\* calls made on the way, each with its resume text.
analyze_resume(request, storage, self_model, self_feature_names, seed) ==
    LET error(status, message, engine_calls) ==
            [status |-> status, body |-> [error |-> message],
             engine_calls |-> engine_calls]
        calls(resume_text, jd_text) ==
            (IF jd_text # "" THEN <<<<"compute_match_score", resume_text>>>>
             ELSE << >>)
            \o <<<<"check_compliance", resume_text>>,
                 <<"find_weak_verbs", resume_text>>,
                 <<"get_power_verb_stats", resume_text>>,
                 <<"score_resume", resume_text>>>>
        matched(match_result) ==
            [match_score |-> <<match_result.match_score>>,
             match_details |->
                 <<[common_keywords |-> match_result.common_keywords,
                    missing_keywords |-> match_result.missing_keywords,
                    important_keywords_matched |->
                        match_result.important_keywords_matched,
                    important_keywords_total |->
                        match_result.important_keywords_total,
                    matched_important_keywords |->
                        match_result.matched_important_keywords]>>]
        analysed(resume_text, jd_text, ats_result, quality_result) ==
            (IF jd_text # ""
             THEN matched(compute_match_score(resume_text, jd_text, seed))
             ELSE [match_score |-> << >>, match_details |-> << >>])
            @@ [ats_score |-> ats_result.ats_score,
                ats_report |->
                    [issues |-> ats_result.issues,
                     recommendations |-> ats_result.recommendations,
                     section_checks |-> ats_result.section_checks,
                     contact_check |-> ats_result.contact_check,
                     formatting_checks |-> ats_result.formatting_checks],
                power_verbs |->
                    [findings |-> Take(find_weak_verbs(resume_text), 10),
                     stats |-> get_power_verb_stats(resume_text)],
                quality_score |-> quality_result.quality_score,
                quality_details |->
                    [model_used |-> quality_result.model_used,
                     features |-> quality_result.features]]
        responded(stored, engine_calls) ==
            IF stored.raised
            THEN error(500, "An error occurred during analysis", engine_calls)
            ELSE [status |-> 200, body |-> stored.results,
                  engine_calls |-> engine_calls]
        scored(resume_text, jd_text, quality_result) ==
            IF quality_result.raised
            THEN error(500, "An error occurred during analysis",
                       calls(resume_text, jd_text))
            ELSE responded(StoreAnalysis(analysed(resume_text, jd_text,
                                                  check_compliance(resume_text),
                                                  quality_result),
                                         jd_text, storage),
                           calls(resume_text, jd_text))
        with(text, jd_text) ==
            IF text.rejected THEN error(400, text.error, << >>)
            ELSE scored(text.resume_text, jd_text,
                        ScoreResult(self_model, self_feature_names,
                                    extract_features(text.resume_text, jd_text)))
    IN  with(ResumeTextOf(request),
             IF request.job_description = << >> THEN ""
             ELSE request.job_description[1])

MaxRowId == 2

\* A request with or without a file, a form text and a job description,
\* and a storage one of whose inserts may raise; the scorer was built at
\* import on a model path with no file.
AnalyzeInit ==
    /\ pc = "ready"
    /\ args \in [request :
                    [resume_file :
                         {<< >>}
                         \cup {<<[filename |-> f, extracted |-> << >>]>> :
                                  f \in {"", "cv", "cv.docx"}}
                         \cup {<<[filename |-> f, extracted |-> e]>> :
                                  f \in {"cv.PDF", "cv.v2.pdf"},
                                  e \in {<< >>, <<"">>, <<"Managed a@b.co">>}},
                     resume_text : {<< >>, <<"">>, <<" ">>, <<"Education developed">>},
                     job_description : {<< >>, <<"">>, <<"Education">>}],
                 storage :
                    [fails_at : {"none", "insert_resume", "insert_job",
                                 "insert_analysis_result"},
                     lastrowid : 1..MaxRowId]]
    /\ ret = None
    /\ artifact \in {a \in Artifacts : a.kind = "missing"}
    /\ model = _load_model(artifact)
    /\ feature_names = get_feature_names
    /\ feature_array = <<>>
    /\ hash_seed = 0

\* POST /analyze
AnalyzeResume ==
    /\ pc = "ready"
    /\ ret' = analyze_resume(args.request, args.storage, model, feature_names,
                             hash_seed)
    /\ pc' = "done"
    /\ UNCHANGED <<args, artifact, model, feature_names, feature_array, hash_seed>>

SpecAnalyze == AnalyzeInit /\ [][AnalyzeResume]_vars

\* C24: /analyze answers 400 to an empty or missing resume text, a PDF with
\* no extractable text included, before any engine call: no engine is ever
\* called with an empty resume text.
C24_RejectsEmptyText ==
    pc = "done" =>
        \E file \in {args.request.resume_file} :
        \E form \in {args.request.resume_text} :
            LET empty(text) == text = << >> \/ text[1] = ""
                is_pdf(name) == /\ Len(name) > 4
                                /\ Lower(SubSeq(name, Len(name) - 3, Len(name)))
                                       = ".pdf"
            IN  /\ \A k \in 1..Len(ret.engine_calls) : ret.engine_calls[k][2] # ""
                /\ ret.status = 400 => ret.engine_calls = << >>
                /\ (/\ empty(form)
                    /\ file # << >> => empty(file[1].extracted))
                   => ret.status = 400
                /\ (/\ file # << >>
                    /\ is_pdf(file[1].filename)
                    /\ empty(file[1].extracted))
                   => ret.status = 400

\* A PDF with no extractable text sent along with a form text: 400, no
\* engine called
C24_Witness ==
    /\ pc = "done"
    /\ args.request.resume_file # << >>
    /\ args.request.resume_file[1].filename = "cv.PDF"
    /\ args.request.resume_file[1].extracted = <<"">>
    /\ args.request.resume_text = <<"Education developed">>
    /\ ret.status = 400
    /\ ret.engine_calls = << >>

\* An empty form text and no file: 400, no engine called
C24_WitnessEmptyForm ==
    /\ pc = "done"
    /\ args.request.resume_file = << >>
    /\ args.request.resume_text = <<"">>
    /\ ret.status = 400
    /\ ret.engine_calls = << >>

\* C27: when insert_resume, insert_job or insert_analysis_result raises, the
\* response is still 200, with the ATS, power-verb, quality and match
\* results computed and analysis_id null: the response is that of the same
\* request with a working storage, less the ids.
C27_StorageFailureStill200 ==
    pc = "done" =>
        \E stored \in {analyze_resume(args.request,
                                      [args.storage EXCEPT !.fails_at = "none"],
                                      model, feature_names, hash_seed)} :
            /\ ret.status = stored.status
            /\ (/\ stored.status = 200
                /\ \/ args.storage.fails_at \in {"insert_resume",
                                                 "insert_analysis_result"}
                   \/ /\ args.storage.fails_at = "insert_job"
                      /\ args.request.job_description \notin {<< >>, <<"">>})
               => /\ ret.body.analysis_id = << >>
                  /\ DOMAIN ret.body =
                         {"match_score", "match_details", "ats_score",
                          "ats_report", "power_verbs", "quality_score",
                          "quality_details", "analysis_id"}
                  /\ \A key \in DOMAIN ret.body \ {"analysis_id"} :
                         ret.body[key] = stored.body[key]

\* insert_job raised on a request with a job description: 200, the match
\* score computed, analysis_id null
C27_Witness ==
    /\ pc = "done"
    /\ args.storage.fails_at = "insert_job"
    /\ args.request.job_description = <<"Education">>
    /\ ret.status = 200
    /\ ret.body.analysis_id = << >>
    /\ ret.body.match_score # << >>
    /\ Len(ret.engine_calls) = 5

-----------------------------------------------------------------------------
(* Concurrent score_resume calls on the one scorer of api/routes.py.  Call *)
(* c has its arguments in args[c], its frame in ret[c] (where it is at,    *)
(* its features, then its result) and its feature vector in                *)
(* feature_array[c]; model and feature_names are the scorer's attributes.  *)

MaxCalls == 2

\* The calls to come, each on a resume with or without a job description,
\* and a scorer not yet constructed
ConcurrentInit ==
    /\ pc = "new"
    /\ args \in [1..MaxCalls ->
                    {[resume_text |-> "Education developed", jd_text |-> ""],
                     [resume_text |-> "Education developed", jd_text |-> "Education"],
                     [resume_text |-> "a@b.co", jd_text |-> ""]}]
    /\ ret = [c \in 1..MaxCalls |-> [at |-> "ready"]]
    /\ artifact \in Artifacts
    /\ model = NoModel
    /\ feature_names = <<>>
    /\ feature_array = [c \in 1..MaxCalls |-> <<>>]
    /\ hash_seed = 0

\* The first half of score_resume in call c, with the features of the call
\* put in the frame of every call that is at the same point.
ScoreResumeExtract_Shared(c) ==
    /\ pc = "ready"
    /\ ret[c].at = "ready"
    /\ \E features \in {extract_features(args[c].resume_text, args[c].jd_text)} :
          /\ ret' = [k \in 1..MaxCalls |->
                        IF k = c \/ ret[k].at = "extracted"
                        THEN [at |-> "extracted", features |-> features]
                        ELSE ret[k]]
          /\ feature_array' =
                 [feature_array EXCEPT ![c] = FeatureValues(features, feature_names)]
    /\ UNCHANGED <<pc, args, artifact, model, feature_names, hash_seed>>

\* The first half of score_resume in call c: the features and the feature
\* vector, both local to the call.
ScoreResumeExtract(c) ==
    /\ pc = "ready"
    /\ ret[c].at = "ready"
    /\ \E features \in {extract_features(args[c].resume_text, args[c].jd_text)} :
          /\ ret' = [ret EXCEPT ![c] = [at |-> "extracted", features |-> features]]
          /\ feature_array' =
                 [feature_array EXCEPT ![c] = FeatureValues(features, feature_names)]
    /\ UNCHANGED <<pc, args, artifact, model, feature_names, hash_seed>>

\* The second half of score_resume in call c: the prediction, read from
\* self.model, and the return.
ScoreResumePredict(c) ==
    /\ pc = "ready"
    /\ ret[c].at = "extracted"
    /\ ret' = [ret EXCEPT ![c] =
                  [at |-> "done",
                   result |-> ScoreResult(model, feature_names, ret[c].features)]]
    /\ UNCHANGED <<pc, args, artifact, model, feature_names, feature_array, hash_seed>>

SpecConcurrent ==
    ConcurrentInit
    /\ [][\/ Construct
          \/ \E c \in 1..MaxCalls : ScoreResumeExtract(c)
          \/ \E c \in 1..MaxCalls : ScoreResumePredict(c)]_vars

\* C23: self.model is set by _load_model during construction only, and no
\* score_resume call, whether its predictor call succeeds or raises, changes
\* it or any other shared state; so under every interleaving each call
\* returns what it returns when run alone.
C23_SharedModelReadOnly ==
    /\ [][/\ pc = "new" => model' = _load_model(artifact)
          /\ pc # "new" => /\ model' = model
                           /\ feature_names' = feature_names
                           /\ artifact' = artifact
                           /\ args' = args
          /\ \A c \in 1..MaxCalls :
                 /\ ret'[c] # ret[c] /\ ret'[c].at = "done"
                        => \A k \in 1..MaxCalls \ {c} :
                               /\ ret'[k] = ret[k]
                               /\ feature_array'[k] = feature_array[k]]_vars
    /\ [](\A c \in 1..MaxCalls :
              ret[c].at = "done" =>
                  ret[c].result =
                      ScoreResult(_load_model(artifact), get_feature_names,
                                  extract_features(args[c].resume_text,
                                                   args[c].jd_text)))

\* Call 1 has returned its result while call 2, on another resume, is
\* between its two halves, on a scorer whose predictor call raises
C23_Witness ==
    /\ pc = "ready"
    /\ model.kind = "object"
    /\ model.has_predict_proba
    /\ model.predict_proba.raises
    /\ ret[1].at = "done"
    /\ ret[2].at = "extracted"
    /\ args[1].resume_text # args[2].resume_text
    /\ ret[1].result.features # ret[2].features

\* Both calls in flight at once on a scorer whose predictor returns
C23_WitnessInFlight ==
    /\ pc = "ready"
    /\ model.kind = "object"
    /\ model.has_predict
    /\ ~model.has_predict_proba
    /\ ~model.predict.raises
    /\ \A c \in 1..MaxCalls : ret[c].at = "extracted"
    /\ args[1] # args[2]

=============================================================================
